---- MODULE Spec2Model ----
(***************************************************************************)
(* WatCon/generate_dynamic_networks.py: the WaterNetwork object (atoms,     *)
(* active site, connection finders, graph) as a state machine.             *)
(*                                                                         *)
(* Lengths are integers in units of 0.1 distance units (3.3 is 33), and a  *)
(* distance is kept as its square, so that `d <= cutoff` is decided        *)
(* exactly as d2 <= cutoff*cutoff.  Sequences are 1-based: Python's slot i *)
(* is slot i+1 here, and the k-d tree's "no neighbour" index n is n+1.     *)
(***************************************************************************)
EXTENDS Integers, Sequences, FiniteSets, TLC

VARIABLES water_molecules, protein_atoms, protein_subset, active_site,
          selected, connections, graph, ret, batch

vars == <<water_molecules, protein_atoms, protein_subset, active_site,
          selected, connections, graph, ret, batch>>

(***************************************************************************)
(* Bounds of the model                                                     *)
(***************************************************************************)
MaxWaters == 4
MaxProtein == 2
MaxCrowd == 12

(***************************************************************************)
(* Program constants                                                       *)
(***************************************************************************)
\* k of the oxygen finder's tree.query calls
KNeighbors == 10
\* k of the directed finder's water-H -> water-O tree.query call
KDirected == 5
\* the distance scipy reports for a slot with no neighbour (inf)
Inf == 1000000000
\* angle_criteria=None
NoAngle == -1
\* box=None
NoBox == 0

(***************************************************************************)
(* Vectors                                                                 *)
(***************************************************************************)
Add(a, b) == <<a[1] + b[1], a[2] + b[2], a[3] + b[3]>>
Sub(a, b) == <<a[1] - b[1], a[2] - b[2], a[3] - b[3]>>
Dot(a, b) == a[1] * b[1] + a[2] * b[2] + a[3] * b[3]
Norm2(a) == Dot(a, a)
Dist2(a, b) == Norm2(Sub(a, b))
Abs(x) == IF x < 0 THEN -x ELSE x

\* f with every value computed once (a function constructor is otherwise
\* re-evaluated at each application)
Table(f) == f @@ <<>>

RECURSIVE Flatten(_)
Flatten(ss) == IF ss = <<>> THEN <<>> ELSE Head(ss) \o Flatten(Tail(ss))

Range(s) == {s[i] : i \in 1..Len(s)}

\* s restricted to the elements satisfying Keep, in order
RECURSIVE SelectIdx(_, _)
SelectIdx(s, keep) ==
    IF s = <<>> THEN <<>>
    ELSE (IF keep[1] THEN <<Head(s)>> ELSE <<>>)
         \o SelectIdx(Tail(s), [i \in 1..(Len(s) - 1) |-> keep[i + 1]])

\* MDAnalysis distances.distance_array with box: the minimum image along one
\* axis of an orthorhombic box of edge L; box=None is the plain difference.
MinImageAxis(d, L) ==
    IF L = NoBox THEN Abs(d)
    ELSE LET m == Abs(d) % L IN IF m <= L - m THEN m ELSE L - m

BoxDist2(a, b, box) ==
    LET d == Sub(a, b)
    IN  MinImageAxis(d[1], box) * MinImageAxis(d[1], box)
        + MinImageAxis(d[2], box) * MinImageAxis(d[2], box)
        + MinImageAxis(d[3], box) * MinImageAxis(d[3], box)

\* np.min(distance_array(positions, reference_positions, box)), squared
MinDist2(positions, reference_positions, box) ==
    LET all == {BoxDist2(p, r, box) : p \in positions, r \in reference_positions}
    IN  CHOOSE d \in all : \A e \in all : d <= e

(***************************************************************************)
(* The atoms a frame can hold.  Water sites are listed in topology order   *)
(* (extract_objects_per_frame adds ag_wat.residues in that order); the     *)
(* oxygen indices are distinct but not monotone in that order.             *)
(***************************************************************************)
WaterSites == 1..4
ProteinSites == 1..4
\* what add_atom can be handed: the protein sites and three water-named atoms
AtomInputs == 1..7

SiteResid(s) == 100 + s
SiteOIndex(s) == CASE s = 1 -> 20 [] s = 2 -> 10 [] s = 3 -> 30 [] OTHER -> 40
SiteOPos(s) == CASE s = 1 -> <<30, 0, 0>> [] s = 2 -> <<58, 0, 0>>
                 [] s = 3 -> <<86, 0, 0>> [] OTHER -> <<100, 0, 0>>

\* the two placements of a water's hydrogens relative to its oxygen
Orientations == {"A", "B"}
SiteOrientations(s) == IF s <= 2 THEN Orientations ELSE {"A"}
H1Offset(o) == IF o = "A" THEN <<10, 0, 0>> ELSE <<-10, 0, 0>>
H2Offset(o) == IF o = "A" THEN <<-3, 9, 0>> ELSE <<3, 9, 0>>

\* MDAnalysis atoms handed to add_water: .index and .position
MdaAtom(index, position) == [index |-> index, position |-> position]

ProteinInput(a) ==
    CASE a = 1 -> [index |-> 1, name |-> "N", resname |-> "SER", resid |-> 5,
                   coordinates |-> <<30, 25, 0>>]
      [] a = 2 -> [index |-> 2, name |-> "OG", resname |-> "SER", resid |-> 5,
                   coordinates |-> <<0, 60, 0>>]
      [] a = 3 -> [index |-> 3, name |-> "H", resname |-> "GLY", resid |-> 6,
                   coordinates |-> <<58, -20, 0>>]
      [] a = 4 -> [index |-> 4, name |-> "O", resname |-> "GLY", resid |-> 6,
                   coordinates |-> <<190, 0, 0>>]
      \* an oxygen handed to add_atom under one of the water residue names
      [] a = 5 -> [index |-> 9, name |-> "O", resname |-> "WAT", resid |-> 101,
                   coordinates |-> <<30, 0, 0>>]
      [] a = 6 -> [index |-> 9, name |-> "O", resname |-> "HOH", resid |-> 101,
                   coordinates |-> <<30, 0, 0>>]
      [] OTHER -> [index |-> 9, name |-> "O", resname |-> "SOL", resid |-> 101,
                   coordinates |-> <<30, 0, 0>>]

\* the characters of an atom name ('O' in atom_name), for the atom names of
\* the standard residues and of nucleic acid backbones
NameLetters(name) ==
    CASE name = "N" -> {"N"} [] name = "CA" -> {"C", "A"} [] name = "C" -> {"C"}
      [] name = "O" -> {"O"} [] name = "CB" -> {"C", "B"} [] name = "CG" -> {"C", "G"}
      [] name = "CD" -> {"C", "D"} [] name = "CE" -> {"C", "E"} [] name = "CZ" -> {"C", "Z"}
      [] name = "OG" -> {"O", "G"} [] name = "OH" -> {"O", "H"} [] name = "OXT" -> {"O", "X", "T"}
      [] name = "OD1" -> {"O", "D", "1"} [] name = "OE1" -> {"O", "E", "1"}
      [] name = "NZ" -> {"N", "Z"} [] name = "NE" -> {"N", "E"} [] name = "ND1" -> {"N", "D", "1"}
      [] name = "SG" -> {"S", "G"} [] name = "SD" -> {"S", "D"}
      [] name = "P" -> {"P"} [] name = "OP1" -> {"O", "P", "1"}
      [] name = "H" -> {"H"} [] name = "HA" -> {"H", "A"} [] name = "HB" -> {"H", "B"}
      [] name = "HG" -> {"H", "G"} [] name = "HN" -> {"H", "N"}
      [] name = "H1" -> {"H", "1"} [] name = "H2" -> {"H", "2"}

\* reference atom groups given to select_active_site: .index, .resid, .position
RefCA == [index |-> 0, resid |-> 5, position |-> <<0, 0, 0>>]
References == {<<RefCA>>}
ActiveSiteRadii == {50}
Boxes == {NoBox, 200}
Cutoffs == {20, 33}
Angles == {NoAngle, 90, 150}

(***************************************************************************)
(* Classes                                                                 *)
(***************************************************************************)
WaterAtom(index, atom_name, residue_number, coordinates) ==
    [index |-> index, coordinates |-> coordinates, resname |-> "WAT",
     name |-> atom_name, resid |-> residue_number]

WaterMolecule(index, O, H1, H2, residue_number) ==
    [index |-> index, H1 |-> H1, H2 |-> H2, O |-> O, resname |-> "WAT",
     resid |-> residue_number]

OtherAtom(index, atom_name, residue_name, coordinates, residue_number, hbonding) ==
    [index |-> index, coordinates |-> coordinates, resname |-> residue_name,
     resid |-> residue_number, name |-> atom_name, hbonding |-> hbonding]

IsWater(f) == f.resname = "WAT"

\* a Python str or number standing where an object of a class above is
\* expected: it has none of that class's attributes
Str(s) == [str |-> s]
Num(x) == [num |-> x]
\* o.index and o.coordinates exist (o is a WaterAtom, not a str)
HasCoordinates(o) == {"index", "coordinates"} \subseteq DOMAIN o
\* the first water of the list whose .O is not an atom, 0 if there is none
FirstBareWater(waters) ==
    IF \A i \in 1..Len(waters) : HasCoordinates(waters[i].O) THEN 0
    ELSE CHOOSE i \in 1..Len(waters) :
           ~HasCoordinates(waters[i].O) /\ \A j \in 1..(i - 1) : HasCoordinates(waters[j].O)

\* Python's None for the list-valued attributes
NoneList == [none |-> TRUE, list |-> <<>>]
SomeList(l) == [none |-> FALSE, list |-> l]
NoGraph == [none |-> TRUE, directed |-> FALSE, nodes |-> {}, order |-> <<>>, edges |-> {}]
NoRet == [op |-> "init", ok |-> TRUE, error |-> "", dist_cutoff |-> 0,
          active_site_only |-> FALSE, water_only |-> FALSE,
          angle_criteria |-> NoAngle, reference |-> NoneList, box |-> NoBox,
          radius |-> 0, value |-> <<>>, selection |-> "all",
          calculate_path |-> "all", exclude_single_points |-> FALSE,
          msa_indexing |-> NoneList, calls_left |-> 1, weak_test |-> FALSE]
\* no call of initialize_network is under way
NoBatch == [frames |-> 0, network_type |-> "water-water", include_hydrogens |-> FALSE,
            analysis_conditions |-> {}, analysis_selection |-> "all", outcomes |-> <<>>,
            classify_water |-> FALSE, num_workers |-> 1, log |-> <<>>, pc |-> <<>>,
            rows |-> <<>>, buffer |-> <<>>]

(***************************************************************************)
(* WaterNetwork.__init__                                                   *)
(***************************************************************************)
Init ==
    /\ water_molecules = <<>>
    /\ protein_atoms = <<>>
    /\ protein_subset = <<>>
    /\ active_site = NoneList
    /\ selected = [protein_active |-> NoneList, water_active |-> NoneList]
    /\ connections = NoneList
    /\ graph = NoGraph
    /\ ret = NoRet
    /\ batch = NoBatch

\* no active site has been selected and nothing has been computed yet
Fresh == active_site.none /\ connections.none /\ graph.none /\ ret.op \in {"init", "add"}
\* no network has been built yet: atoms can still be added, also after
\* select_active_site, and the finders called
Idle == graph.none /\ ret.op \in {"init", "add", "select_active_site"}

(***************************************************************************)
(* add_water, add_atom                                                     *)
(***************************************************************************)
add_water(wm, index, o, h1, h2, residue_number) ==
    Append(wm, WaterMolecule(index,
                             WaterAtom(o.index, "O", residue_number, o.position),
                             WaterAtom(h1.index, "H1", residue_number, h1.position),
                             WaterAtom(h2.index, "H2", residue_number, h2.position),
                             residue_number))

\* the lists self.water_molecules and self.protein_atoms after the call;
\* coordinates is (x, y, z).  Line 67 hands WaterMolecule the atom name as
\* its O, x as its H1, y as its H2 and z as its residue number.
add_atom(wm, pa, index, atom_name, residue_name, coordinates, residue_number) ==
    IF residue_name = "WAT" \/ residue_name = "HOH" \/ residue_name = "SOL"
    THEN [water_molecules |->
              Append(wm, WaterMolecule(index, Str(atom_name), Num(coordinates[1]),
                                       Num(coordinates[2]), coordinates[3])),
          protein_atoms |-> pa]
    ELSE LET hbonding == NameLetters(atom_name) \cap {"O", "N", "S", "P"} # {}
         IN  [water_molecules |-> wm,
              protein_atoms |->
                  Append(pa, OtherAtom(index, atom_name, residue_name, coordinates,
                                       residue_number, hbonding))]

\* the site of the last water; a water that add_atom has added comes last
LastSite(wm) ==
    IF wm = <<>> THEN 0
    ELSE IF ~HasCoordinates(wm[Len(wm)].O) THEN Cardinality(WaterSites) + 1
    ELSE CHOOSE s \in WaterSites : SiteResid(s) = wm[Len(wm)].resid

LastProteinSite(pa) ==
    IF pa = <<>> THEN 0
    ELSE CHOOSE a \in ProteinSites : ProteinInput(a).index = pa[Len(pa)].index

AddWater ==
    /\ Idle
    /\ Len(water_molecules) < MaxWaters
    /\ \E s \in WaterSites : \E o \in SiteOrientations(s) :
         /\ s > LastSite(water_molecules)
         /\ water_molecules' =
              add_water(water_molecules, SiteResid(s),
                        MdaAtom(SiteOIndex(s), SiteOPos(s)),
                        MdaAtom(SiteOIndex(s) + 1, Add(SiteOPos(s), H1Offset(o))),
                        MdaAtom(SiteOIndex(s) + 2, Add(SiteOPos(s), H2Offset(o))),
                        SiteResid(s))
    /\ ret' = [NoRet EXCEPT !.op = "add"]
    /\ UNCHANGED <<batch, protein_atoms, protein_subset, active_site, selected,
                   connections, graph>>

AddAtom ==
    /\ Idle
    /\ \E a \in AtomInputs :
         /\ IF a \in ProteinSites
            THEN Len(protein_atoms) < MaxProtein /\ a > LastProteinSite(protein_atoms)
            ELSE Len(water_molecules) < MaxWaters
                 /\ LastSite(water_molecules) <= Cardinality(WaterSites)
         /\ \E p \in {ProteinInput(a)} :
              \E r \in {add_atom(water_molecules, protein_atoms, p.index, p.name,
                                 p.resname, p.coordinates, p.resid)} :
                 /\ water_molecules' = r.water_molecules
                 /\ protein_atoms' = r.protein_atoms
    /\ ret' = [NoRet EXCEPT !.op = "add"]
    /\ UNCHANGED <<batch, protein_subset, active_site, selected, connections, graph>>

(***************************************************************************)
(* select_active_site                                                      *)
(***************************************************************************)
ReferencePositions(reference) == {reference[i].position : i \in 1..Len(reference)}
ReferenceResids(reference) == {reference[i].resid : i \in 1..Len(reference)}

\* line 118: the atom's residue id is one of the reference's residue ids
InReference(atm, reference) == atm.resid \in ReferenceResids(reference)

ProteinNear(atm, reference, box, active_site_radius) ==
    MinDist2({atm.coordinates}, ReferencePositions(reference), box)
        <= active_site_radius * active_site_radius

\* lines 133-136: the three atoms of the water, no box
WaterNear(mol, reference, active_site_radius) ==
    MinDist2({mol.O.coordinates, mol.H1.coordinates, mol.H2.coordinates},
             ReferencePositions(reference), NoBox)
        <= active_site_radius * active_site_radius

select_active_site(wm, pa, reference, box, active_site_radius) ==
    LET inref == [i \in 1..Len(pa) |-> InReference(pa[i], reference)]
        near == [i \in 1..Len(pa) |->
                   ~inref[i] /\ ProteinNear(pa[i], reference, box, active_site_radius)]
        wnear == [i \in 1..Len(wm) |-> WaterNear(wm[i], reference, active_site_radius)]
        protein_active == SelectIdx(pa, near)
        water_active == SelectIdx(wm, wnear)
        active_site_atoms ==
            SelectIdx(pa, [i \in 1..Len(pa) |-> inref[i] \/ near[i]]) \o water_active
    IN  \* line 133 reads mol.O.coordinates of every water
        IF FirstBareWater(wm) # 0
        THEN [ok |-> FALSE, error |-> "AttributeError", active_site |-> <<>>,
              protein_active |-> <<>>, water_active |-> <<>>]
        ELSE [ok |-> TRUE, error |-> "", active_site |-> active_site_atoms,
              protein_active |-> protein_active, water_active |-> water_active]

SelectActiveSite ==
    /\ Fresh
    /\ \E reference \in References, box \in Boxes, radius \in ActiveSiteRadii :
         \E r \in {select_active_site(water_molecules, protein_atoms, reference, box, radius)} :
             /\ active_site' = IF r.ok THEN SomeList(r.active_site) ELSE active_site
             /\ selected' = IF r.ok
                            THEN [protein_active |-> SomeList(r.protein_active),
                                  water_active |-> SomeList(r.water_active)]
                            ELSE selected
             /\ ret' = [NoRet EXCEPT !.op = "select_active_site",
                                     !.ok = r.ok, !.error = r.error,
                                     !.reference = SomeList(reference),
                                     !.box = box, !.radius = radius,
                                     !.value = IF r.ok
                                               THEN <<r.active_site, r.protein_active,
                                                      r.water_active>>
                                               ELSE <<>>]
    /\ UNCHANGED <<batch, water_molecules, protein_atoms, protein_subset, connections, graph>>

(***************************************************************************)
(* scipy.spatial.cKDTree                                                   *)
(***************************************************************************)
\* cKDTree(data) raises ValueError unless data is 2-dimensional:
\* np.array([]) of an empty list has one dimension
TreeBuilds(points) == Len(points) > 0

\* scipy keeps the neighbours found so far in a binary heap with the farthest
\* at the top (ckdtree/src/query.cxx).  The heap is a sequence whose entry i
\* has its parent at i \div 2.  A new entry rises while it is strictly farther
\* than its parent
RECURSIVE HeapRise(_, _)
HeapRise(heap, i) ==
    IF i > 1 /\ heap[i].dist2 > heap[i \div 2].dist2
    THEN HeapRise([heap EXCEPT ![i] = heap[i \div 2], ![i \div 2] = heap[i]], i \div 2)
    ELSE heap

HeapPush(heap, item) == HeapRise(Append(heap, item), Len(heap) + 1)

\* an entry sinks while a child is strictly farther: below the second child
\* if that is strictly farther than the first, else below the first
RECURSIVE HeapSink(_, _)
HeapSink(heap, i) ==
    IF \/ 2 * i <= Len(heap) /\ heap[i].dist2 < heap[2 * i].dist2
       \/ 2 * i + 1 <= Len(heap) /\ heap[i].dist2 < heap[2 * i + 1].dist2
    THEN LET l == IF 2 * i + 1 <= Len(heap) /\ heap[2 * i].dist2 < heap[2 * i + 1].dist2
                  THEN 2 * i + 1 ELSE 2 * i
         IN  HeapSink([heap EXCEPT ![i] = heap[l], ![l] = heap[i]], l)
    ELSE heap

\* the top is dropped: the last entry takes its place and sinks
HeapRemove(heap) ==
    IF Len(heap) <= 1 THEN <<>>
    ELSE HeapSink([SubSeq(heap, 1, Len(heap) - 1) EXCEPT ![1] = heap[Len(heap)]], 1)

\* the points from the i-th on are visited in the order given (a tree of at
\* most leafsize = 16 points is one leaf).  A point enters at a distance
\* strictly below the bound, in the place of the top when the heap holds k,
\* and a heap of k entries lowers the bound to the distance of its top
RECURSIVE HeapScan(_, _, _, _, _, _)
HeapScan(points, q, k, bound2, heap, i) ==
    IF i > Len(points) THEN heap
    ELSE IF Dist2(points[i], q) < bound2
    THEN CHOOSE out \in
           {HeapScan(points, q, k, IF Len(h) = k THEN h[1].dist2 ELSE bound2, h, i + 1) :
              h \in {HeapPush(IF Len(heap) = k THEN HeapRemove(heap) ELSE heap,
                              [index |-> i, dist2 |-> Dist2(points[i], q)])}} : TRUE
    ELSE HeapScan(points, q, k, bound2, heap, i + 1)

\* the heap emptied from the top: the entries with the farthest last
RECURSIVE HeapSorted(_)
HeapSorted(heap) ==
    IF heap = <<>> THEN <<>> ELSE Append(HeapSorted(HeapRemove(heap)), heap[1])

\* tree.query(q, k, distance_upper_bound) for one query point: k slots, the
\* nearest points first, a point entering only at a distance strictly below
\* the upper bound; the other slots hold index n and distance inf.  Points at
\* equal distance come in the order the heap gives them up.
KDQuery(points, q, k, distance_upper_bound) ==
    CHOOSE out \in
      {Table([r \in 1..k |-> IF r <= Len(found) THEN found[r]
                             ELSE [index |-> Len(points) + 1, dist2 |-> Inf]]) :
         found \in {HeapSorted(HeapScan(points, q, k,
                                        distance_upper_bound * distance_upper_bound,
                                        <<>>, 1))}} : TRUE

\* the slot's position j taken for the index the tree reports in it
SlotNeighborByPosition(slot, j) == j

\* lines 183-184, 411: the index the tree reports in slot j of a row
\* (neighbor, index_ref[i]), which the loops look the neighbour up by
SlotNeighbor(slot, j) == slot.index

\* dist[i, j] <= dist_cutoff
WithinCutoff(dist2, dist_cutoff) == dist2 <= dist_cutoff * dist_cutoff

(***************************************************************************)
(* find_connections                                                        *)
(***************************************************************************)
Failed(error) == [ok |-> FALSE, error |-> error, connections |-> <<>>]
Returned(conns) == [ok |-> TRUE, error |-> "", connections |-> conns]

\* line 191 with the test weakened to "not the same index"
LowerIndexFirstNeq(index_i, index_neighbor) == index_i # index_neighbor

\* line 191
LowerIndexFirst(index_i, index_neighbor) == index_i < index_neighbor

\* lines 186-190
WatWatSiteStatus(asite, water) ==
    IF asite.none THEN "None"
    ELSE IF \E k \in 1..Len(asite.list) : water.resid = asite.list[k].resid
         THEN "active_site" ELSE "not_active_site"

\* lines 206-210
WatProtSiteStatus(asite, water, atm) ==
    IF asite.none THEN "None"
    ELSE IF \E k \in 1..Len(asite.list) :
              water.resid = asite.list[k].resid \/ atm.resid = asite.list[k].resid
         THEN "active_site" ELSE "not_active_site"

\* lines 211-214
Classification(name) == IF name = "O" \/ name = "N" THEN "backbone" ELSE "side-chain"

\* lines 180-192
WatWatConnections(asite, waters, dist_cutoff) ==
    LET n == Len(waters)
        water_coords == Table([i \in 1..n |-> waters[i].O.coordinates])
        slots == Table([i \in 1..n |-> KDQuery(water_coords, water_coords[i], KNeighbors, dist_cutoff)])
        emit(i, j) ==
            LET neighbor == SlotNeighbor(slots[i][j], j)
            IN  IF neighbor # i /\ WithinCutoff(slots[i][j].dist2, dist_cutoff)
                   /\ LowerIndexFirst(waters[i].O.index, waters[neighbor].O.index)
                THEN << <<waters[i].O.index, waters[neighbor].O.index, "O", "WAT-WAT",
                          WatWatSiteStatus(asite, waters[i])>> >>
                ELSE <<>>
    IN  Flatten([i \in 1..n |-> Flatten([j \in 1..KNeighbors |-> emit(i, j)])])

\* lines 196-215
WatProtConnections(asite, waters, protein, dist_cutoff) ==
    LET n == Len(waters)
        protein_coords == Table([a \in 1..Len(protein) |-> protein[a].coordinates])
        slots == Table([i \in 1..n |->
                    KDQuery(protein_coords, waters[i].O.coordinates, KNeighbors, dist_cutoff)])
        emit(i, j) ==
            LET neighbor == SlotNeighbor(slots[i][j], j)
            IN  IF WithinCutoff(slots[i][j].dist2, dist_cutoff)
                THEN << <<protein[neighbor].index, waters[i].O.index, protein[neighbor].name,
                          "WAT-PROT", WatProtSiteStatus(asite, waters[i], protein[neighbor]),
                          Classification(protein[neighbor].name)>> >>
                ELSE <<>>
    IN  Flatten([i \in 1..n |-> Flatten([j \in 1..KNeighbors |-> emit(i, j)])])

find_connections(wm, pa, asite, dist_cutoff, water_active, protein_active, active_site_only, water_only) ==
    LET waters == IF active_site_only THEN water_active ELSE SomeList(wm)
        protein == IF active_site_only THEN protein_active ELSE SomeList(pa)
    IN  IF waters.none THEN Failed("TypeError")
        \* line 175 reads mol.O.coordinates of every water in scope
        ELSE IF FirstBareWater(waters.list) # 0 THEN Failed("AttributeError")
        ELSE IF ~TreeBuilds(waters.list) THEN Failed("ValueError")
        ELSE IF water_only
             THEN Returned(WatWatConnections(asite, waters.list, dist_cutoff))
        ELSE IF protein.none THEN Failed("TypeError")
        ELSE IF ~TreeBuilds(protein.list) THEN Failed("ValueError")
        ELSE Returned(WatWatConnections(asite, waters.list, dist_cutoff)
                      \o WatProtConnections(asite, waters.list, protein.list, dist_cutoff))

FindConnections ==
    /\ Idle
    /\ \E dist_cutoff \in Cutoffs, active_site_only \in BOOLEAN, water_only \in BOOLEAN :
         /\ active_site_only => ~selected.water_active.none
         /\ \E r \in {find_connections(water_molecules, protein_atoms, active_site, dist_cutoff,
                                      selected.water_active, selected.protein_active,
                                      active_site_only, water_only)} :
                ret' = [NoRet EXCEPT !.op = "find_connections", !.ok = r.ok,
                                     !.error = r.error, !.dist_cutoff = dist_cutoff,
                                     !.active_site_only = active_site_only,
                                     !.water_only = water_only, !.value = r.connections]
    /\ UNCHANGED <<batch, water_molecules, protein_atoms, protein_subset, active_site, selected,
                   connections, graph>>

(***************************************************************************)
(* find_directed_connections                                               *)
(***************************************************************************)
\* cos(theta) = sign * sqrt(quarter/4) for the thresholds in use
CosSign(theta) == IF theta < 90 THEN 1 ELSE IF theta = 90 THEN 0 ELSE -1
CosQuarters(theta) ==
    CASE theta = 0 -> 4 [] theta = 30 -> 3 [] theta = 60 -> 1 [] theta = 90 -> 0
      [] theta = 120 -> 1 [] theta = 150 -> 3 [] OTHER -> 4

\* the angle between v1 and v2 against theta in exact arithmetic
AngleExact(v1, v2, theta) ==
    LET d == Dot(v1, v2)
        nn == Norm2(v1) * Norm2(v2)
    IN  /\ nn > 0
        /\ IF CosSign(theta) >= 0
           THEN d <= 0 \/ 4 * d * d <= CosQuarters(theta) * nn
           ELSE d < 0 /\ 4 * d * d >= CosQuarters(theta) * nn

\* the outcome of lines 441-444 hangs on how the doubles round.  Exactly
\* opposite vectors have a cosine of -1: the rounded quotient is at, just
\* inside or just outside -1, and outside it np.arccos gives nan, which
\* compares False (parallel vectors fail a positive threshold either way).
\* Vectors along one coordinate axis are apart from that: the dot product
\* and the product of the norms are one rounded product each, equal in size,
\* and the cosine is exactly 1 or -1.
\* An angle that is exactly the threshold comes out at, just above or just
\* below it, unless every term of the dot product is zero: then the cosine
\* is exactly 0 and the angle exactly 90.0
RoundingDecides(v1, v2, theta) ==
    \E d \in {Dot(v1, v2)}, nn \in {Norm2(v1) * Norm2(v2)} :
        /\ nn > 0
        /\ \/ /\ d * d = nn
              /\ d < 0 \/ theta = 0
              /\ \A i \in 1..3 : \E j \in (1..3) \ {i} : v1[j] # 0 \/ v2[j] # 0
           \/ /\ d * d # nn
              /\ 4 * d * d = CosQuarters(theta) * nn
              /\ IF CosSign(theta) > 0 THEN d > 0
                 ELSE IF CosSign(theta) < 0 THEN d < 0
                 ELSE \E i \in 1..3 : v1[i] # 0 /\ v2[i] # 0

\* np.degrees(np.arccos(dot(v1, v2) / (|v1| * |v2|))) >= theta, decided on the
\* cosine; a zero-length vector gives nan, which compares False.  Where the
\* rounding decides, in_favour is the way it fell
AngleAtLeast(v1, v2, theta, in_favour) ==
    IF RoundingDecides(v1, v2, theta) THEN in_favour ELSE AngleExact(v1, v2, theta)

\* lines 261-284: two hydrogen entries per water, both carrying the O index
WaterHEntries(waters) ==
    Table([h \in 1..(2 * Len(waters)) |->
       LET mol == waters[(h + 1) \div 2]
       IN  IF h % 2 = 1
           THEN [index |-> mol.O.index, coordinates |-> mol.H1.coordinates, name |-> "H1"]
           ELSE [index |-> mol.O.index, coordinates |-> mol.H2.coordinates, name |-> "H2"]])

\* lines 302-311
IsProtO(atm) == NameLetters(atm.name) \cap {"P", "O", "N", "S"} # {}
IsProtH(atm) == ~IsProtO(atm) /\ "H" \in NameLetters(atm.name)
ProtO(protein) == SelectIdx(protein, [a \in 1..Len(protein) |-> IsProtO(protein[a])])
ProtH(protein) == SelectIdx(protein, [a \in 1..Len(protein) |-> IsProtH(protein[a])])

\* lines 328-337, 372-381, 414-423: f.index of a WaterMolecule is the index
\* add_water was given, f.index of an OtherAtom is the atom index
DirectedSiteStatus(asite, active_site_only, index_1, index_2) ==
    IF active_site_only THEN "active_site"
    ELSE IF asite.none THEN "None"
    ELSE IF \E k \in 1..Len(asite.list) : asite.list[k].index \in {index_1, index_2}
         THEN "active_site" ELSE "not_active_site"

\* lines 425-445 without the tests on the two oxygen indices
WatWatAcceptedNoIndexTest(angle_criteria, angle_ok, h_index, o_index) ==
    IF angle_criteria = NoAngle THEN TRUE ELSE angle_ok

\* lines 425-445 with line 444 not repeating the index order test of line 429
WatWatAcceptedAngleUnordered(angle_criteria, angle_ok, h_index, o_index) ==
    /\ h_index # o_index
    /\ IF angle_criteria = NoAngle THEN h_index < o_index ELSE angle_ok

\* lines 425-445: the tests a water-H -> water-O slot within the cutoff passes
\* before it is appended
WatWatAccepted(angle_criteria, angle_ok, h_index, o_index) ==
    /\ h_index # o_index
    /\ IF angle_criteria = NoAngle THEN h_index < o_index
       ELSE angle_ok /\ h_index < o_index

\* line 437: water.O.index == water_H_indices[index_near].  The O of a water
\* that add_atom made is a str, whose index is the method str.index: it
\* equals no number, and the water is passed over
IsDonor(water, h) == HasCoordinates(water.O) /\ water.O.index = h.index
HasDonor(wm, h) == \E i \in 1..Len(wm) : IsDonor(wm[i], h)

\* line 437: the O coordinates of the first water whose O has the index of
\* the hydrogen entry
DonorO(wm, h) ==
    wm[CHOOSE i \in 1..Len(wm) :
         IsDonor(wm[i], h) /\ \A j \in 1..(i - 1) : ~IsDonor(wm[j], h)].O.coordinates

\* lines 434-444: rounding holds the tests, each named by its three
\* positions, that the rounding of the doubles lets pass
WatWatAngleOk(wm, h, acceptor_coords, angle_criteria, rounding) ==
    LET water1 == Sub(h.coordinates, acceptor_coords)
        water2 == Sub(h.coordinates, DonorO(wm, h))
    IN  AngleAtLeast(water1, water2, angle_criteria,
                     <<h.coordinates, acceptor_coords, DonorO(wm, h)>> \in rounding)

\* the angle tests of a call on the waters searched that the rounding
\* decides: one for each slot within the cutoff between two different indices
RoundingTests(wm, waters, dist_cutoff, angle_criteria) ==
    IF angle_criteria = NoAngle \/ waters.none THEN {}
    ELSE IF FirstBareWater(waters.list) # 0 THEN {}
    ELSE LET o_coords == Table([w \in 1..Len(waters.list) |-> waters.list[w].O.coordinates])
             reached(h, acceptor) ==
                 \E i \in 1..KDirected :
                     \E slot \in {KDQuery(o_coords, h.coordinates, KDirected, dist_cutoff)[i]} :
                         /\ WithinCutoff(slot.dist2, dist_cutoff)
                         /\ waters.list[SlotNeighbor(slot, i)] = acceptor
         IN  {<<t[1].coordinates, t[2].O.coordinates, DonorO(wm, t[1])>> :
                t \in {<<h, acceptor>> \in Range(WaterHEntries(waters.list))
                                             \X Range(waters.list) :
                         /\ h.index # acceptor.O.index
                         /\ HasDonor(wm, h)
                         /\ \E water1 \in {Sub(h.coordinates, acceptor.O.coordinates)},
                               water2 \in {Sub(h.coordinates, DonorO(wm, h))} :
                                RoundingDecides(water1, water2, angle_criteria)
                         /\ reached(h, acceptor)}}

\* lines 319-360: protein H -> water O.  value: the connections appended;
\* raised: a slot within the cutoff reached the angle computation (line 356
\* reads water1 before it is assigned; line 349 takes argmin of an empty list
\* when the residue has no atom without 'H' in its name)
ProtHLoop(wm, pa, asite, waters, protein, dist_cutoff, active_site_only, angle_criteria) ==
    LET prot_h == ProtH(protein)
        h_entries == WaterHEntries(waters)
        prot_coords == Table([a \in 1..Len(prot_h) |-> prot_h[a].coordinates])
        slots == Table([w \in 1..Len(waters) |->
                    KDQuery(prot_coords, waters[w].O.coordinates, KNeighbors, dist_cutoff)])
        hits == {<<w, i>> \in (1..Len(waters)) \X (1..KNeighbors) :
                   WithinCutoff(slots[w][i].dist2, dist_cutoff)}
        emit(w, i) ==
            IF <<w, i>> \in hits
            THEN LET atm == prot_h[SlotNeighbor(slots[w][i], i)]
                 IN  << <<atm.index, waters[w].O.index, atm.name, "WAT-PROT",
                          DirectedSiteStatus(asite, active_site_only,
                                             h_entries[w].index, atm.index)>> >>
            ELSE <<>>
        first == CHOOSE x \in hits : \A y \in hits :
                     x[1] < y[1] \/ (x[1] = y[1] /\ x[2] <= y[2])
        heavy == {a \in 1..Len(pa) :
                    /\ pa[a].resid = prot_h[SlotNeighbor(slots[first[1]][first[2]],
                                                          first[2])].resid
                    /\ "H" \notin NameLetters(pa[a].name)}
    IN  IF angle_criteria # NoAngle /\ hits # {}
        THEN Failed(IF heavy = {} THEN "ValueError" ELSE "UnboundLocalError")
        ELSE Returned(Flatten([w \in 1..Len(waters) |->
                                 Flatten([i \in 1..KNeighbors |-> emit(w, i)])]))

\* lines 365-398: water H -> protein O, N, S, P.  With angle_criteria set,
\* line 394 takes np.dot of two arrays of shape (1, 3) and raises ValueError
ProtOLoop(asite, waters, protein, dist_cutoff, active_site_only, angle_criteria) ==
    LET prot_o == ProtO(protein)
        h_entries == WaterHEntries(waters)
        prot_coords == Table([a \in 1..Len(prot_o) |-> prot_o[a].coordinates])
        slots == Table([h \in 1..Len(h_entries) |->
                    KDQuery(prot_coords, h_entries[h].coordinates, KNeighbors, dist_cutoff)])
        hits == {<<h, i>> \in (1..Len(h_entries)) \X (1..KNeighbors) :
                   WithinCutoff(slots[h][i].dist2, dist_cutoff)}
        emit(h, i) ==
            IF <<h, i>> \in hits
            THEN LET atm == prot_o[SlotNeighbor(slots[h][i], i)]
                 IN  << <<h_entries[h].index, atm.index, h_entries[h].name, "WAT-PROT",
                          DirectedSiteStatus(asite, active_site_only,
                                             h_entries[h].index, atm.index)>> >>
            ELSE <<>>
    IN  IF angle_criteria # NoAngle /\ hits # {}
        THEN Failed("ValueError")
        ELSE Returned(Flatten([h \in 1..Len(h_entries) |->
                                 Flatten([i \in 1..KNeighbors |-> emit(h, i)])]))

\* lines 405-445: water H -> water O.  With angle_criteria set, a slot within
\* the cutoff between two different indices reaches line 437, which takes
\* the first water of self.water_molecules whose O has the hydrogen's index:
\* [0] of an empty list raises IndexError
WatOLoop(wm, asite, waters, dist_cutoff, active_site_only, angle_criteria, rounding) ==
    LET h_entries == WaterHEntries(waters)
        o_coords == Table([w \in 1..Len(waters) |-> waters[w].O.coordinates])
        slots == Table([h \in 1..Len(h_entries) |->
                    KDQuery(o_coords, h_entries[h].coordinates, KDirected, dist_cutoff)])
        emit(h, i) ==
            IF WithinCutoff(slots[h][i].dist2, dist_cutoff)
            THEN LET acceptor == waters[SlotNeighbor(slots[h][i], i)]
                 IN  IF WatWatAccepted(angle_criteria,
                                       angle_criteria # NoAngle
                                       /\ WatWatAngleOk(wm, h_entries[h],
                                                        acceptor.O.coordinates, angle_criteria,
                                                        rounding),
                                       h_entries[h].index, acceptor.O.index)
                     THEN << <<h_entries[h].index, acceptor.O.index, h_entries[h].name,
                               "WAT-WAT",
                               DirectedSiteStatus(asite, active_site_only,
                                                  h_entries[h].index, acceptor.O.index)>> >>
                     ELSE <<>>
            ELSE <<>>
        tested(h) ==
            \E i \in 1..KDirected :
                /\ WithinCutoff(slots[h][i].dist2, dist_cutoff)
                /\ h_entries[h].index # waters[SlotNeighbor(slots[h][i], i)].O.index
    IN  IF /\ angle_criteria # NoAngle
           /\ \E h \in 1..Len(h_entries) : ~HasDonor(wm, h_entries[h]) /\ tested(h)
        THEN Failed("IndexError")
        ELSE Returned(Flatten([h \in 1..Len(h_entries) |->
                                 Flatten([i \in 1..KDirected |-> emit(h, i)])]))

find_directed_connections(wm, pa, asite, dist_cutoff, water_active, protein_active, active_site_only, water_only, angle_criteria, rounding) ==
    LET waters == IF active_site_only THEN water_active ELSE SomeList(wm)
        protein == IF active_site_only THEN protein_active ELSE SomeList(pa)
        loop1 == ProtHLoop(wm, pa, asite, waters.list, protein.list, dist_cutoff,
                           active_site_only, angle_criteria)
        loop2 == ProtOLoop(asite, waters.list, protein.list, dist_cutoff,
                           active_site_only, angle_criteria)
        loop3 == WatOLoop(wm, asite, waters.list, dist_cutoff, active_site_only,
                          angle_criteria, rounding)
    IN  IF waters.none THEN Failed("TypeError")
        \* line 273 reads mol.H1.coordinates of every water in scope
        ELSE IF FirstBareWater(waters.list) # 0 THEN Failed("AttributeError")
        ELSE IF water_only THEN loop3
        ELSE IF protein.none THEN Failed("TypeError")
        ELSE IF ~loop1.ok THEN loop1
        ELSE IF ~loop2.ok THEN loop2
        ELSE CHOOSE out \in {IF ~l3.ok THEN l3
                              ELSE Returned(loop1.connections \o loop2.connections
                                            \o l3.connections) : l3 \in {loop3}} : TRUE

FindDirectedConnections ==
    /\ Idle
    /\ \E dist_cutoff \in Cutoffs, active_site_only \in BOOLEAN, water_only \in BOOLEAN,
          angle_criteria \in Angles :
         /\ active_site_only => ~selected.water_active.none
         /\ \E rounding \in SUBSET RoundingTests(water_molecules,
                                                  IF active_site_only
                                                  THEN selected.water_active
                                                  ELSE SomeList(water_molecules),
                                                  dist_cutoff, angle_criteria) :
            \E r \in {find_directed_connections(water_molecules, protein_atoms, active_site,
                                               dist_cutoff, selected.water_active,
                                               selected.protein_active, active_site_only,
                                               water_only, angle_criteria, rounding)} :
                ret' = [NoRet EXCEPT !.op = "find_directed_connections", !.ok = r.ok,
                                     !.error = r.error, !.dist_cutoff = dist_cutoff,
                                     !.active_site_only = active_site_only,
                                     !.water_only = water_only,
                                     !.angle_criteria = angle_criteria,
                                     !.value = r.connections]
    /\ UNCHANGED <<batch, water_molecules, protein_atoms, protein_subset, active_site, selected,
                   connections, graph>>

(***************************************************************************)
(* networkx Graph / DiGraph                                                *)
(***************************************************************************)
\* order lists the node ids as the graph's dictionaries hold them, first
\* added first
EmptyGraph(directed) ==
    [none |-> FALSE, directed |-> directed, nodes |-> {}, order |-> <<>>, edges |-> {}]

\* the ids of order that are in the set ids, in their order
Ordered(order, ids) == SelectIdx(order, [i \in 1..Len(order) |-> order[i] \in ids])

NodeIds(G) == {nd.id : nd \in G.nodes}

\* G.add_node(id, pos=..., atom_category=..., MSA=...): attributes of a node
\* already present are overwritten
AddNode(G, id, pos, atom_category, MSA) ==
    [G EXCEPT !.nodes = {nd \in G.nodes : nd.id # id}
                        \cup {[id |-> id, attrs |-> TRUE, pos |-> pos,
                               atom_category |-> atom_category, MSA |-> MSA]},
              !.order = IF id \in NodeIds(G) THEN @ ELSE Append(@, id)]

BareNode(id) == [id |-> id, attrs |-> FALSE, pos |-> <<>>, atom_category |-> "", MSA |-> ""]

\* the key of an edge: an unordered pair (kept lower id first) unless directed
EdgeKey(G, a, b) == IF G.directed \/ a <= b THEN <<a, b>> ELSE <<b, a>>

\* G.add_edge(a, b, connection_type=..., active_site=...): endpoints that are
\* no node yet become nodes without attributes; an edge already present has
\* its attributes overwritten
AddEdge(G, a, b, connection_type, site) ==
    LET key == EdgeKey(G, a, b)
    IN  [G EXCEPT !.nodes = G.nodes \cup {BareNode(id) : id \in {a, b} \ NodeIds(G)},
                  !.order = @ \o (IF a \in NodeIds(G) THEN <<>> ELSE <<a>>)
                              \o (IF b \in NodeIds(G) \/ b = a THEN <<>> ELSE <<b>>),
                  !.edges = {e \in G.edges : <<e.u, e.v>> # key}
                            \cup {[u |-> key[1], v |-> key[2],
                                   connection_type |-> connection_type,
                                   active_site |-> site]}]

\* the loops below bind the graph built so far and the item at hand as values
\* (g, molecule), each computed once per iteration
RECURSIVE AddWaterNodes(_, _)
AddWaterNodes(G, waters) ==
    IF waters = <<>> THEN G
    ELSE CHOOSE out \in
           {AddWaterNodes(AddNode(g, molecule.O.index, molecule.O.coordinates, "WAT", "None"),
                          Tail(waters)) : g \in {G}, molecule \in {Head(waters)}} : TRUE

RECURSIVE AddProteinNodes(_, _, _)
AddProteinNodes(G, atoms, msa) ==
    IF atoms = <<>> THEN G
    ELSE CHOOSE out \in
           {AddProteinNodes(AddNode(g, molecule.index, molecule.coordinates,
                                    "PROTEIN", Head(msa)),
                            Tail(atoms), Tail(msa)) : g \in {G}, molecule \in {Head(atoms)}} : TRUE

RECURSIVE AddEdges(_, _)
AddEdges(G, conns) ==
    IF conns = <<>> THEN G
    ELSE CHOOSE out \in
           {AddEdges(AddEdge(g, connection[1], connection[2], connection[4], connection[5]),
                     Tail(conns)) : g \in {G}, connection \in {Head(conns)}} : TRUE

\* lines 472-475, 485: MSA_indices[resid - 1] on the list given, or on the
\* dummy list of 10000 'X'; a negative position counts from the end
DummyLength == 10000
MSALookup(msa_indexing, resid) ==
    LET len == IF msa_indexing.none THEN DummyLength ELSE Len(msa_indexing.list)
        pos == resid - 1
    IN  IF pos >= len \/ pos < -len THEN [ok |-> FALSE, value |-> ""]
        ELSE IF msa_indexing.none THEN [ok |-> TRUE, value |-> "X"]
        ELSE [ok |-> TRUE,
              value |-> msa_indexing.list[IF pos >= 0 THEN pos + 1 ELSE len + pos + 1]]

MSAColumn(msa_indexing, atoms) ==
    Table([a \in 1..Len(atoms) |-> MSALookup(msa_indexing, atoms[a].resid)])

(***************************************************************************)
(* generate_oxygen_network, generate_directed_network                      *)
(***************************************************************************)
\* what a call leaves behind: self.active_site, self.connections, self.graph
Outcome(ok, error, asite, sel, conns, G) ==
    [ok |-> ok, error |-> error, active_site |-> asite, selected |-> sel,
     connections |-> conns, graph |-> G]

NoSelection == [protein_active |-> NoneList, water_active |-> NoneList]

\* line 489 / 550
ActiveSiteEdges(conns) ==
    SelectIdx(conns, [i \in 1..Len(conns) |-> conns[i][5] = "active_site"])

generate_network(directed, wm, pa, psub, asite, conns0, G0, box, msa_indexing, reference, active_site_radius, active_site_only, water_only, angle_criteria, max_connection_distance, rounding) ==
    LET \* lines 467-468 / 528-529, bound once as the value sel
        selection == IF reference.none
                     THEN [ok |-> TRUE, error |-> "", active_site |-> <<>>,
                           protein_active |-> <<>>, water_active |-> <<>>]
                     ELSE select_active_site(wm, pa, reference.list, box, active_site_radius)
        body(sel) ==
            LET asite1 == IF reference.none THEN asite ELSE SomeList(sel.active_site)
                sel1 == IF reference.none THEN NoSelection
                        ELSE [protein_active |-> SomeList(sel.protein_active),
                              water_active |-> SomeList(sel.water_active)]
                raise(error) == Outcome(FALSE, error, asite1, sel1, conns0, G0)
                find(aso, angle) ==
                    IF directed
                    THEN find_directed_connections(wm, pa, asite1, max_connection_distance,
                                                   sel1.water_active, sel1.protein_active,
                                                   aso, water_only, angle, rounding)
                    ELSE find_connections(wm, pa, asite1, max_connection_distance,
                                          sel1.water_active, sel1.protein_active, aso,
                                          water_only)
                msa_active == MSAColumn(msa_indexing, sel.protein_active)
                msa_subset == MSAColumn(msa_indexing, psub)
                G1 == AddWaterNodes(EmptyGraph(directed), sel.water_active)
                G2 == IF water_only THEN G1
                      ELSE AddProteinNodes(G1, sel.protein_active,
                                           [a \in 1..Len(msa_active) |-> msa_active[a].value])
                H1 == AddWaterNodes(EmptyGraph(directed), wm)
                H2 == IF water_only THEN H1
                      ELSE AddProteinNodes(H1, psub, [a \in 1..Len(psub) |->
                                                       IF directed THEN msa_subset[a].value
                                                       ELSE "None"])
                \* the connections found, bound once as the value found, then the edges
                edges(found, G, kept) ==
                    IF ~found.ok THEN raise(found.error)
                    ELSE Outcome(TRUE, "", asite1, sel1, SomeList(found.connections),
                                 AddEdges(G, IF kept THEN ActiveSiteEdges(found.connections)
                                             ELSE found.connections))
            IN  \* select_active_site has raised: nothing is assigned
                IF ~sel.ok THEN Outcome(FALSE, sel.error, asite, NoSelection, conns0, G0)
                ELSE IF active_site_only
                THEN IF reference.none THEN raise("UnboundLocalError")
                     ELSE IF ~water_only /\ \E a \in 1..Len(msa_active) : ~msa_active[a].ok
                          THEN raise("IndexError")
                     ELSE CHOOSE out \in {edges(found, G2, TRUE) :
                                            found \in {find(TRUE, angle_criteria)}} : TRUE
                \* lines 495 / 557 read molecule.O.coordinates of every water
                ELSE IF FirstBareWater(wm) # 0 THEN raise("AttributeError")
                ELSE IF ~water_only /\ ~directed
                        /\ \E a \in 1..Len(msa_subset) : ~msa_subset[a].ok
                     THEN raise("IndexError")
                \* line 561 reads MSA_index, which this branch never assigns
                ELSE IF ~water_only /\ directed /\ psub # <<>> THEN raise("UnboundLocalError")
                \* the branch for all atoms never passes angle_criteria on
                ELSE CHOOSE out \in {edges(found, H2, FALSE) :
                                       found \in {find(FALSE, NoAngle)}} : TRUE
    IN  CHOOSE out \in {body(sel) : sel \in {selection}} : TRUE

GenerateCutoffs == {20, 33}
GenerateAngles == {NoAngle, 150}
GenerateReferences == {NoneList} \cup {SomeList(r) : r \in References}

\* alignment maps handed over as msa_indexing: entry i is the alignment
\* column of residue i; the first one ends before residue 6
AlignmentMaps ==
    {SomeList(<<"c1", "c2", "c3", "c4", "c5">>),
     SomeList(<<"c1", "c2", "c3", "c4", "c5", "c6">>)}

\* the angle tests of a generate call that the rounding decides: line 549
\* hands angle_criteria to the directed finder on the waters that lines
\* 528-529 have just selected
GenerateRoundingTests(directed, wm, pa, box, reference, active_site_radius, active_site_only, angle_criteria, max_connection_distance) ==
    IF ~directed \/ ~active_site_only \/ reference.none \/ angle_criteria = NoAngle THEN {}
    ELSE CHOOSE out \in
           {IF sel.ok THEN RoundingTests(wm, SomeList(sel.water_active),
                                         max_connection_distance, angle_criteria)
            ELSE {} :
               sel \in {select_active_site(wm, pa, reference.list, box,
                                           active_site_radius)}} : TRUE

GenerateWith(directed, angles, maps, cutoffs) ==
    /\ Fresh
    /\ \E reference \in GenerateReferences, box \in Boxes, radius \in ActiveSiteRadii,
          active_site_only \in BOOLEAN, water_only \in BOOLEAN, angle_criteria \in angles,
          max_connection_distance \in cutoffs, msa_indexing \in maps :
         /\ reference.none => box = NoBox
         /\ \E rounding \in SUBSET GenerateRoundingTests(directed, water_molecules,
                                                          protein_atoms, box, reference,
                                                          radius, active_site_only,
                                                          angle_criteria,
                                                          max_connection_distance) :
            \E r \in {generate_network(directed, water_molecules, protein_atoms,
                                      protein_subset, active_site, connections, graph, box,
                                      msa_indexing, reference, radius, active_site_only,
                                      water_only, angle_criteria, max_connection_distance,
                                      rounding)} :
                /\ active_site' = r.active_site
                /\ selected' = r.selected
                /\ connections' = r.connections
                /\ graph' = r.graph
                /\ ret' = [NoRet EXCEPT
                             !.op = IF directed THEN "generate_directed_network"
                                    ELSE "generate_oxygen_network",
                             !.ok = r.ok, !.error = r.error,
                             !.dist_cutoff = max_connection_distance,
                             !.active_site_only = active_site_only,
                             !.water_only = water_only, !.angle_criteria = angle_criteria,
                             !.reference = reference, !.box = box, !.radius = radius,
                             !.msa_indexing = msa_indexing]
    /\ UNCHANGED <<batch, water_molecules, protein_atoms, protein_subset>>

Generate(directed, angles) == GenerateWith(directed, angles, {NoneList}, GenerateCutoffs)

GenerateOxygenNetwork == Generate(FALSE, {NoAngle})
GenerateDirectedNetwork == Generate(TRUE, GenerateAngles)

(***************************************************************************)
(* Graph metrics.  A float result is kept exact, as the quotient           *)
(* <<numerator, denominator>> in lowest terms.                             *)
(***************************************************************************)
RECURSIVE GCD(_, _)
GCD(a, b) == IF b = 0 THEN a ELSE GCD(b, a % b)

Ratio(n, d) == <<n \div GCD(n, d), d \div GCD(n, d)>>
RatAdd(x, y) == Ratio(x[1] * y[2] + y[1] * x[2], x[2] * y[2])

RECURSIVE RatSum(_)
RatSum(s) == IF s = <<>> THEN <<0, 1>> ELSE RatAdd(Head(s), RatSum(Tail(s)))

Selections == {"all", "active_site", "not_active_site"}

\* self.graph.edge_subgraph([... if data['active_site']==selection]): the
\* edges with that attribute and the nodes they touch
EdgeSubgraph(G, selection) ==
    LET kept == {e \in G.edges : e.active_site = selection}
        ends == {e.u : e \in kept} \cup {e.v : e \in kept}
    IN  [G EXCEPT !.nodes = {nd \in G.nodes : nd.id \in ends},
                  !.order = Ordered(@, ends), !.edges = kept]

Selected(G, selection) == IF selection = "all" THEN G ELSE EdgeSubgraph(G, selection)

\* the place of the node id in the graph's dictionaries
NodePlace(S, id) == CHOOSE i \in 1..Len(S.order) : S.order[i] = id

\* S.to_undirected(): the edges are added source by source in the order of
\* the nodes, so that of u -> v and v -> u the one whose source comes later
\* gives the undirected edge its attributes
ToUndirected(S) ==
    [S EXCEPT !.directed = FALSE,
              !.edges = {[e EXCEPT !.u = IF e.u <= e.v THEN e.u ELSE e.v,
                                   !.v = IF e.u <= e.v THEN e.v ELSE e.u] :
                           e \in {x \in S.edges :
                                    \A y \in S.edges :
                                        (y.u = x.v /\ y.v = x.u)
                                            => NodePlace(S, y.u) <= NodePlace(S, x.u)}}]

\* S.subgraph(c)
InducedSubgraph(S, c) ==
    [S EXCEPT !.nodes = {nd \in S.nodes : nd.id \in c}, !.order = Ordered(@, c),
              !.edges = {e \in S.edges : e.u \in c /\ e.v \in c}]

Successors(S, v) == {e.v : e \in {x \in S.edges : x.u = v}}
Predecessors(S, v) == {e.u : e \in {x \in S.edges : x.v = v}}
\* the nodes one step from v: along the edge direction in a directed graph
\* unless weak is set
Step(S, v, weak) ==
    IF S.directed /\ ~weak THEN Successors(S, v)
    ELSE Successors(S, v) \cup Predecessors(S, v)

\* the nodes at most r steps from v
RECURSIVE Ball(_, _, _, _)
Ball(S, v, r, weak) ==
    IF r = 0 THEN {v}
    ELSE CHOOSE out \in {b \cup UNION {Step(S, w, weak) : w \in b} :
                           b \in {Ball(S, v, r - 1, weak)}} : TRUE

\* the sum of f over the set S
RECURSIVE SumFn(_, _)
SumFn(f, S) ==
    IF S = {} THEN 0
    ELSE CHOOSE out \in {f[x] + SumFn(f, S \ {x}) : x \in {CHOOSE y \in S : TRUE}} : TRUE

\* the sum of the shortest path lengths from u to the nodes of S that u
\* reaches: for each r the nodes reached in more than r steps count once
RECURSIVE DistanceSum(_, _, _)
DistanceSum(S, u, r) ==
    IF r < 0 THEN 0
    ELSE Cardinality(Ball(S, u, Cardinality(S.nodes), FALSE) \ Ball(S, u, r, FALSE))
         + DistanceSum(S, u, r - 1)

\* the components along the edge direction only
ComponentsForward(S) == {Ball(S, v, Cardinality(S.nodes), FALSE) : v \in NodeIds(S)}

\* nx.connected_components / nx.weakly_connected_components: sets of node ids
Components(S) == {Ball(S, v, Cardinality(S.nodes), TRUE) : v \in NodeIds(S)}

\* nx.is_connected, and for a directed graph nx.is_weakly_connected if
\* weak_test is set, else nx.is_strongly_connected
IsConnected(S, weak_test) ==
    \A u \in NodeIds(S) : Ball(S, u, Cardinality(S.nodes), weak_test) = NodeIds(S)

MetricValue(v) == [ok |-> TRUE, error |-> "", value |-> v]
MetricError(error) == [ok |-> FALSE, error |-> error, value |-> <<>>]

\* nx.average_shortest_path_length(S); S need only have a length when it has
\* a single element.  The test a directed graph must pass depends on the
\* networkx release installed, and the repository names none: releases 2.x
\* raise unless it is weakly connected (weak_test) and sum the lengths over
\* the pairs with a path, releases 3.x raise unless it is strongly connected
average_shortest_path_length(S, weak_test) ==
    LET n == Cardinality(S.nodes)
    IN  IF n = 0 THEN MetricError("NetworkXPointlessConcept")
        ELSE IF n = 1 THEN MetricValue(<<0, 1>>)
        ELSE IF ~IsConnected(S, weak_test) THEN MetricError("NetworkXError")
        ELSE MetricValue(Ratio(SumFn(Table([u \in NodeIds(S) |-> DistanceSum(S, u, n - 1)]),
                                     NodeIds(S)),
                               n * (n - 1)))

(***************************************************************************)
(* get_density, get_connected_components, get_CPL,                         *)
(* get_clustering_coefficient, get_entropy                                 *)
(***************************************************************************)
\* get_density with the denominator of its docstring, (N*N - 1)/2
get_densityDocstring(G, selection) ==
    IF selection # "all" THEN MetricError("UnboundLocalError")
    ELSE LET nedges == Cardinality(G.edges)
             nnodes == Cardinality(G.nodes)
         IN  IF nnodes * (nnodes - 1) = 0 THEN MetricError("ZeroDivisionError")
             ELSE MetricValue(Ratio(2 * nedges, nnodes * nnodes - 1))

\* lines 583-586: with another selection than 'all' S is read before it is
\* assigned; line 591: the division raises when nnodes*(nnodes-1) is 0
get_density(G, selection) ==
    IF selection # "all" THEN MetricError("UnboundLocalError")
    ELSE LET nedges == Cardinality(G.edges)
             nnodes == Cardinality(G.nodes)
         IN  IF nnodes * (nnodes - 1) = 0 THEN MetricError("ZeroDivisionError")
             ELSE MetricValue(Ratio(2 * nedges, nnodes * (nnodes - 1)))

\* the component sizes as a multiset: size |-> number of components
get_connected_components(G, selection) ==
    LET cc == Components(Selected(G, selection))
        sizes == {Cardinality(c) : c \in cc}
    IN  MetricValue(Table([s \in sizes |-> Cardinality({c \in cc : Cardinality(c) = s})]))

\* np.array(CPLs).mean(): nan, kept as <<0, 0>>, for an empty list
Mean(total, count) == IF count = 0 THEN <<0, 0>> ELSE Ratio(total[1], total[2] * count)

RECURSIVE ComponentCPLs(_, _, _)
ComponentCPLs(S, cc, weak_test) ==
    IF cc = {} THEN <<0, 1>>
    ELSE CHOOSE out \in
           {RatAdd(average_shortest_path_length(InducedSubgraph(S, c), weak_test).value,
                   ComponentCPLs(S, cc \ {c}, weak_test)) :
               c \in {CHOOSE x \in cc : TRUE}} : TRUE

\* the components kept when no component is excluded
KeptComponentsAll(components, exclude_single_points) == components

\* lines 664-667: cc, without the components of one node if they are excluded
KeptComponents(components, exclude_single_points) ==
    {c \in components : ~exclude_single_points \/ Cardinality(c) > 1}

get_CPL(G, selection, calculate_path, exclude_single_points, weak_test) ==
    LET S == Selected(G, selection)
        whole == average_shortest_path_length(S, weak_test)
        U == IF S.directed THEN ToUndirected(S) ELSE S
        components == Components(U)
        cc == KeptComponents(components, exclude_single_points)
        \* line 679 hands the node set largest_cc, not a graph, to
        \* average_shortest_path_length: a set of one node has length 1 and
        \* gives 0, a larger one has no is_directed
        largest == CHOOSE c \in components : \A d \in components :
                                                Cardinality(d) <= Cardinality(c)
    IN  IF whole.ok \/ whole.error # "NetworkXError" THEN whole
        ELSE IF calculate_path = "all"
             THEN MetricValue(Mean(ComponentCPLs(U, cc, weak_test), Cardinality(cc)))
        ELSE IF Cardinality(largest) = 1 THEN MetricValue(<<0, 1>>)
        ELSE MetricError("AttributeError")

\* nx.clustering(S): node |-> coefficient; an edge from a node to itself
\* counts neither as a neighbour nor as a link
Clustering(S, i) ==
    LET ipreds == Predecessors(S, i) \ {i}
        isuccs == Successors(S, i) \ {i}
        nbrs == ipreds \cup isuccs
        links == Cardinality({e \in S.edges : e.u \in nbrs /\ e.v \in nbrs /\ e.u # e.v})
        d == Cardinality(nbrs)
        around(j) == Cardinality(ipreds \cap (Predecessors(S, j) \ {j}))
                     + Cardinality(ipreds \cap (Successors(S, j) \ {j}))
                     + Cardinality(isuccs \cap (Predecessors(S, j) \ {j}))
                     + Cardinality(isuccs \cap (Successors(S, j) \ {j}))
        counts == Table([j \in nbrs |-> around(j)])
        directed_triangles == SumFn(counts, ipreds) + SumFn(counts, isuccs)
        dtotal == Cardinality(ipreds) + Cardinality(isuccs)
        dbidirectional == Cardinality(ipreds \cap isuccs)
    IN  IF S.directed
        THEN IF directed_triangles = 0 THEN <<0, 1>>
             ELSE Ratio(directed_triangles, 2 * (dtotal * (dtotal - 1) - 2 * dbidirectional))
        ELSE IF links = 0 THEN <<0, 1>> ELSE Ratio(2 * links, d * (d - 1))

get_clustering_coefficient(G, selection) ==
    MetricValue(Table([i \in NodeIds(Selected(G, selection)) |->
                         Clustering(Selected(G, selection), i)]))

\* the edges leaving the node only
DegreeOut(S, v) == Cardinality({e \in S.edges : e.u = v})

\* G.degree(): the edges at the node, in and out for a directed graph
Degree(S, v) == Cardinality({e \in S.edges : e.u = v}) + Cardinality({e \in S.edges : e.v = v})

\* lines 704-718 and 725-731: the histogram Pk over 0..maxk and the terms
\* p > 0 of H = -sum(p * log2(p)), in the order of k; np.max raises on an empty
\* degree list
get_entropy(G, selection) ==
    LET S == Selected(G, selection)
        ids == NodeIds(S)
        vk == Table([v \in ids |-> Degree(S, v)])
        maxk == CHOOSE k \in {vk[v] : v \in ids} : \A v \in ids : vk[v] <= k
        Pk == [k \in 1..(maxk + 1) |->
                 Ratio(Cardinality({v \in ids : vk[v] = k - 1}), Cardinality(ids))]
        positive(p) == p[1] > 0
    IN  IF ids = {} THEN MetricError("ValueError")
        ELSE MetricValue(SelectSeq(Pk, positive))

CalculatePaths == {"all", "longest"}
GenerateOps == {"generate_oxygen_network", "generate_directed_network"}

MetricOps ==
    {"get_density", "get_connected_components", "get_CPL", "get_clustering_coefficient",
     "get_entropy"}

\* the metrics are read off the graph a generate call has left behind;
\* ret.calls_left bounds the number of metric calls made on one graph
HasGraph ==
    /\ ~graph.none
    /\ (ret.op \in GenerateOps /\ ret.ok) \/ ret.op \in MetricOps
    /\ ret.calls_left > 0

\* self.graph after get_CPL, had line 662 assigned the converted graph to it
GraphAfterConverted(op, G) == IF op = "get_CPL" /\ G.directed THEN ToUndirected(G) ELSE G

\* self.graph after a metric call: the methods assign to the local S only
\* (lines 584-586, 611-613, 652-654, 662, 687-689, 722-724)
GraphAfter(op, G) == G

Answer(op, selection, r) ==
    /\ ret' = [ret EXCEPT !.op = op, !.selection = selection, !.ok = r.ok,
                          !.error = r.error, !.value = r.value, !.calls_left = @ - 1]
    /\ graph' = GraphAfter(op, graph)
    /\ UNCHANGED <<batch, water_molecules, protein_atoms, protein_subset, active_site, selected,
                   connections>>

GetDensity ==
    /\ HasGraph
    /\ \E selection \in Selections : \E r \in {get_density(graph, selection)} :
         Answer("get_density", selection, r)

GetConnectedComponents ==
    /\ HasGraph
    /\ \E selection \in Selections : \E r \in {get_connected_components(graph, selection)} :
         Answer("get_connected_components", selection, r)

GetCPL ==
    /\ HasGraph
    /\ \E selection \in Selections, calculate_path \in CalculatePaths,
          exclude_single_points \in BOOLEAN, weak_test \in BOOLEAN :
         \E r \in {get_CPL(graph, selection, calculate_path, exclude_single_points,
                            weak_test)} :
            /\ ret' = [ret EXCEPT !.op = "get_CPL", !.selection = selection,
                                  !.calculate_path = calculate_path,
                                  !.exclude_single_points = exclude_single_points,
                                  !.ok = r.ok, !.error = r.error, !.value = r.value,
                                  !.calls_left = @ - 1]
            /\ graph' = GraphAfter("get_CPL", graph)
            /\ UNCHANGED <<batch, water_molecules, protein_atoms, protein_subset, active_site,
                           selected, connections>>

GetClusteringCoefficient ==
    /\ HasGraph
    /\ \E selection \in Selections : \E r \in {get_clustering_coefficient(graph, selection)} :
         Answer("get_clustering_coefficient", selection, r)

GetEntropy ==
    /\ HasGraph
    /\ \E selection \in Selections : \E r \in {get_entropy(graph, selection)} :
         Answer("get_entropy", selection, r)

Next ==
    \/ AddWater
    \/ AddAtom
    \/ SelectActiveSite
    \/ FindConnections
    \/ FindDirectedConnections
    \/ GenerateOxygenNetwork
    \/ GenerateDirectedNetwork
    \/ GetDensity
    \/ GetConnectedComponents
    \/ GetCPL
    \/ GetClusteringCoefficient
    \/ GetEntropy

Spec == Init /\ [][Next]_vars
(***************************************************************************)
(* Crowded frames: up to MaxCrowd waters and protein atoms along a line,   *)
(* no atom midway between two others (so no two neighbours of a query      *)
(* point are at the same distance)                                         *)
(***************************************************************************)
RECURSIVE Stanley(_)
Stanley(m) == IF m = 0 THEN 0 ELSE 3 * Stanley(m \div 2) + (m % 2)

CrowdPos(i) == Stanley(i - 1)

RECURSIVE CrowdWaters(_)
CrowdWaters(n) ==
    IF n = 0 THEN <<>>
    ELSE add_water(CrowdWaters(n - 1), 100 + n,
                   MdaAtom(10 * n, <<CrowdPos(n), 0, 0>>),
                   MdaAtom(10 * n + 1, <<CrowdPos(n), 0, 10>>),
                   MdaAtom(10 * n + 2, <<CrowdPos(n), 9, -3>>),
                   100 + n)

RECURSIVE CrowdProtein(_)
CrowdProtein(n) ==
    IF n = 0 THEN <<>>
    ELSE add_atom(<<>>, CrowdProtein(n - 1), 1000 + n, "O", "GLY", <<CrowdPos(n), 5, 0>>,
                  n).protein_atoms

InitCrowd ==
    /\ \E nw \in 1..MaxCrowd, np \in 1..MaxCrowd :
         /\ water_molecules = CrowdWaters(nw)
         /\ protein_atoms = CrowdProtein(np)
    /\ protein_subset = <<>>
    /\ active_site = NoneList
    /\ selected = NoSelection
    /\ connections = NoneList
    /\ graph = NoGraph
    /\ ret = NoRet
    /\ batch = NoBatch

NextCrowd == FindConnections

SpecCrowd == InitCrowd /\ [][NextCrowd]_vars

(***************************************************************************)
(* The networks built with an alignment map (msa_indexing)                 *)
(***************************************************************************)
GenerateOxygenNetworkAligned == GenerateWith(FALSE, {NoAngle}, AlignmentMaps, {33})
GenerateDirectedNetworkAligned == GenerateWith(TRUE, {NoAngle}, AlignmentMaps, {33})

NextAligned ==
    \/ AddWater
    \/ AddAtom
    \/ GenerateOxygenNetworkAligned
    \/ GenerateDirectedNetworkAligned

SpecAligned == Init /\ [][NextAligned]_vars

(***************************************************************************)
(* initialize_network: one process_frame per trajectory frame, run by      *)
(* joblib's Parallel.  The options left at their defaults are not          *)
(* modelled (no active site reference, no water classification, no         *)
(* clustering, no projection).                                             *)
(***************************************************************************)
MaxFrames == 2

\* the water sites within reach of the protein in a frame
FrameSites == {{1}, {1, 2}, {1, 2, 3}}
NetworkTypes == {"water-water", "water-protein"}
BatchSelections == {"all", "active_site"}
DefaultMaxDistance == 33

\* the keys of analysis_conditions, in the order process_frame reads them
AnalysisKeys ==
    <<"density", "connected_components", "interaction_counts", "per_residue_interactions",
      "characteristic_path_length", "graph_entropy", "clustering_coefficient">>

\* lines 1000-1009: 'all' stands for every key set to True; otherwise the
\* set of the keys set to True
EnabledKeys(analysis_conditions) ==
    IF analysis_conditions = {"all"} THEN Range(AnalysisKeys) ELSE analysis_conditions

\* the key of the metrics record a key of analysis_conditions fills
MetricName(key) ==
    CASE key = "per_residue_interactions" -> "per_residue_interaction"
      [] key = "graph_entropy" -> "entropy"
      [] OTHER -> key

\* lines 840-843: the waters of the frame, in topology order
RECURSIVE FrameWaters(_, _)
FrameWaters(sites, s) ==
    IF s > 4 THEN <<>>
    ELSE IF s \notin sites THEN FrameWaters(sites, s + 1)
    ELSE <<WaterMolecule(SiteResid(s),
                         WaterAtom(SiteOIndex(s), "O", SiteResid(s), SiteOPos(s)),
                         WaterAtom(SiteOIndex(s) + 1, "H1", SiteResid(s),
                                   Add(SiteOPos(s), H1Offset("A"))),
                         WaterAtom(SiteOIndex(s) + 2, "H2", SiteResid(s),
                                   Add(SiteOPos(s), H2Offset("A"))),
                         SiteResid(s))>> \o FrameWaters(sites, s + 1)

\* lines 825-837: the protein atoms of the topology selected by ag_protein
FrameProtein(network_type) ==
    IF network_type = "water-protein"
    THEN LET p == ProteinInput(1)
         IN  add_atom(<<>>, <<>>, p.index, p.name, p.resname, p.coordinates,
                      p.resid).protein_atoms
    ELSE <<>>

\* the WaterNetwork of a frame and the outcome of building its graph
extract_objects_per_frame(sites, network_type, directed) ==
    LET wm == FrameWaters(sites, 1)
        pa == FrameProtein(network_type)
    IN  CHOOSE out \in
          {[water_molecules |-> wm, protein_atoms |-> pa, built |-> r] :
             r \in {generate_network(directed, wm, pa, <<>>, NoneList, NoneList, NoGraph,
                                     NoBox, NoneList, NoneList, 80, FALSE,
                                     network_type = "water-water", NoAngle,
                                     DefaultMaxDistance, {})}} : TRUE

\* lines 632-634: the tally is made by residue_analysis
get_per_residue_interactions(G, selection) ==
    MetricValue(<<"residue_analysis.get_per_residue_interactions", selection>>)

\* the call process_frame makes for a key; get_interactions(self) takes no
\* selection, so the call of line 943 raises TypeError
MetricCall(key, G, selection, weak_test) ==
    CASE key = "density" -> get_density(G, selection)
      [] key = "connected_components" -> get_connected_components(G, selection)
      [] key = "interaction_counts" -> MetricError("TypeError")
      [] key = "per_residue_interactions" -> get_per_residue_interactions(G, selection)
      [] key = "characteristic_path_length" -> get_CPL(G, selection, "all", FALSE, weak_test)
      [] key = "graph_entropy" -> get_entropy(G, selection)
      [] OTHER -> get_clustering_coefficient(G, selection)

\* lines 936-951: the enabled metrics in order; the first exception ends the
\* frame
RECURSIVE RunMetrics(_, _, _, _, _, _)
RunMetrics(G, enabled, selection, i, metrics, weak_test) ==
    IF i > Len(AnalysisKeys) THEN MetricValue(metrics)
    ELSE IF AnalysisKeys[i] \notin enabled
         THEN RunMetrics(G, enabled, selection, i + 1, metrics, weak_test)
    ELSE CHOOSE out \in
           {IF ~r.ok THEN r
            ELSE RunMetrics(G, enabled, selection, i + 1,
                            metrics @@ (MetricName(AnalysisKeys[i]) :> r.value),
                            weak_test) :
              r \in {MetricCall(AnalysisKeys[i], G, selection, weak_test)}} : TRUE

process_frame(network, enabled, selection, weak_test) ==
    IF ~network.built.ok THEN MetricError(network.built.error)
    ELSE RunMetrics(network.built.graph, enabled, selection, 1, <<>>, weak_test)

InitBatch ==
    /\ water_molecules = <<>>
    /\ protein_atoms = <<>>
    /\ protein_subset = <<>>
    /\ active_site = NoneList
    /\ selected = NoSelection
    /\ connections = NoneList
    /\ graph = NoGraph
    /\ ret = [NoRet EXCEPT !.op = "initialize_network", !.ok = FALSE]
    /\ \E frames \in 1..MaxFrames, network_type \in NetworkTypes,
          include_hydrogens \in BOOLEAN, selection \in BatchSelections,
          analysis_conditions \in {{"all"}} \cup SUBSET Range(AnalysisKeys) :
         batch = [NoBatch EXCEPT !.frames = frames, !.network_type = network_type,
                                 !.include_hydrogens = include_hydrogens,
                                 !.analysis_conditions = analysis_conditions,
                                 !.analysis_selection = selection]

BatchOver == ret.op = "initialize_network" /\ (ret.ok \/ ret.error # "")

\* a worker runs process_frame on the next frame; the state keeps the
\* WaterNetwork of that frame
ProcessFrame ==
    /\ ~BatchOver
    /\ Len(batch.outcomes) < batch.frames
    /\ \E sites \in FrameSites, weak_test \in BOOLEAN :
         \E network \in {extract_objects_per_frame(sites, batch.network_type,
                                                   batch.include_hydrogens)} :
           \E r \in {process_frame(network, EnabledKeys(batch.analysis_conditions),
                                   batch.analysis_selection, weak_test)} :
             /\ water_molecules' = network.water_molecules
             /\ protein_atoms' = network.protein_atoms
             /\ active_site' = network.built.active_site
             /\ selected' = network.built.selected
             /\ connections' = network.built.connections
             /\ graph' = network.built.graph
             /\ batch' = [batch EXCEPT !.outcomes = Append(@, r)]
             \* weak_test: the connectivity test of the networkx release the
             \* frame's metrics ran under
             /\ ret' = [NoRet EXCEPT !.op = "process_frame", !.ok = r.ok, !.error = r.error,
                                     !.weak_test = weak_test,
                                     !.value = r.value,
                                     !.selection = batch.analysis_selection,
                                     !.water_only = batch.network_type = "water-water",
                                     !.dist_cutoff = DefaultMaxDistance]
    /\ UNCHANGED protein_subset

\* the metrics of the frames, in frame order
RECURSIVE Values(_)
Values(outcomes) ==
    IF outcomes = <<>> THEN <<>> ELSE <<Head(outcomes).value>> \o Values(Tail(outcomes))

\* line 1051: Parallel hands back the list of the frames' records, or raises
\* the exception a frame has raised; lines 1067-1068 return the list
ReturnMetrics ==
    /\ ~BatchOver
    /\ \/ Len(batch.outcomes) = batch.frames
       \/ \E i \in 1..Len(batch.outcomes) : ~batch.outcomes[i].ok
    /\ LET failed == {i \in 1..Len(batch.outcomes) : ~batch.outcomes[i].ok}
           first == CHOOSE i \in failed : \A j \in failed : i <= j
       IN  ret' = IF failed = {}
                  THEN [NoRet EXCEPT !.op = "initialize_network",
                                     !.value = Values(batch.outcomes)]
                  ELSE [NoRet EXCEPT !.op = "initialize_network", !.ok = FALSE,
                                     !.error = batch.outcomes[first].error]
    /\ UNCHANGED <<water_molecules, protein_atoms, protein_subset, active_site, selected,
                   connections, graph, batch>>

NextBatch ==
    \/ ProcessFrame
    \/ ReturnMetrics

SpecBatch == InitBatch /\ [][NextBatch]_vars

(***************************************************************************)
(* initialize_network with classify_water: the file                        *)
(* CLASSIFICATION_DYNAMIC.csv.  The parent writes the header, then the     *)
(* workers of Parallel run process_frame, each appending the rows of its   *)
(* frame.  batch.pc is the position of each frame's process_frame,         *)
(* batch.rows the rows it has still to write, batch.buffer what it has     *)
(* written into its file object and the file has not received yet.         *)
(***************************************************************************)
MaxWorkers == 2
MaxRows == 2

LogHeader == "Frame Index,Resid,MSA_Resid,..."

Running(f) == batch.pc[f] \in {"classify", "open"}

InitLog ==
    /\ water_molecules = <<>>
    /\ protein_atoms = <<>>
    /\ protein_subset = <<>>
    /\ active_site = NoneList
    /\ selected = NoSelection
    /\ connections = NoneList
    /\ graph = NoGraph
    /\ ret = [NoRet EXCEPT !.op = "initialize_network", !.ok = FALSE]
    /\ \E frames \in 1..MaxFrames, num_workers \in 1..MaxWorkers :
         batch = [NoBatch EXCEPT !.frames = frames, !.num_workers = num_workers,
                                 !.classify_water = TRUE,
                                 !.pc = [f \in 1..frames |-> "header"],
                                 !.rows = [f \in 1..frames |-> 0],
                                 !.buffer = [f \in 1..frames |-> <<>>]]

LogStep(b) ==
    /\ batch' = b
    /\ UNCHANGED <<water_molecules, protein_atoms, protein_subset, active_site, selected,
                   connections, graph, ret>>

\* lines 1046-1047: open(..., 'w') and the header, before Parallel starts
WriteHeader ==
    /\ batch.classify_water
    /\ \A f \in 1..batch.frames : batch.pc[f] = "header"
    /\ LogStep([batch EXCEPT !.log = <<LogHeader>>,
                             !.pc = [f \in 1..batch.frames |-> "pending"]])

\* line 1051: a free worker takes a frame; lines 909-966 up to the
\* classification_dict, whose length is the number of rows
StartFrame ==
    \E f \in 1..batch.frames : \E n \in 0..MaxRows :
        /\ batch.pc[f] = "pending"
        /\ Cardinality({g \in 1..batch.frames : Running(g)}) < batch.num_workers
        /\ LogStep([batch EXCEPT !.pc[f] = "classify", !.rows[f] = n])

\* line 969: with open('CLASSIFICATION_DYNAMIC.csv', 'a')
OpenLog ==
    \E f \in 1..batch.frames :
        /\ batch.pc[f] = "classify"
        /\ LogStep([batch EXCEPT !.pc[f] = "open"])

\* lines 970-971: FILE.write of one row, into the buffer of the file object
WriteRow ==
    \E f \in 1..batch.frames :
        /\ batch.pc[f] = "open" /\ batch.rows[f] > 0
        /\ LogStep([batch EXCEPT !.rows[f] = @ - 1,
                                 !.buffer[f] = Append(@, <<f - 1, batch.rows[f]>>)])

\* a raw write: the file object hands the rows at the front of its buffer to
\* the file, when a FILE.write has filled the buffer or while the with block
\* ends; the buffer of one frame can take several raw writes to empty
FlushLog ==
    \E f \in 1..batch.frames : \E k \in 1..Len(batch.buffer[f]) :
        /\ batch.pc[f] = "open"
        /\ LogStep([batch EXCEPT !.log = @ \o SubSeq(batch.buffer[f], 1, k),
                                 !.buffer[f] = SubSeq(@, k + 1, Len(@))])

\* the end of the with block, once the last raw write has emptied the buffer
CloseLog ==
    \E f \in 1..batch.frames :
        /\ batch.pc[f] = "open" /\ batch.rows[f] = 0 /\ batch.buffer[f] = <<>>
        /\ LogStep([batch EXCEPT !.pc[f] = "done"])

NextLog ==
    \/ WriteHeader
    \/ StartFrame
    \/ OpenLog
    \/ WriteRow
    \/ FlushLog
    \/ CloseLog

SpecLog == InitLog /\ [][NextLog]_vars

(***************************************************************************)
(* Sequences of metric calls on one built graph                            *)
(***************************************************************************)
MaxCalls == 3

\* a network after its generate call has returned
InitMetrics ==
    /\ protein_subset = <<>>
    /\ batch = NoBatch
    /\ \E sites \in SUBSET WaterSites, network_type \in NetworkTypes, directed \in BOOLEAN,
          reference \in GenerateReferences :
         \E r \in {generate_network(directed, FrameWaters(sites, 1),
                                    FrameProtein(network_type), <<>>, NoneList, NoneList,
                                    NoGraph, NoBox, NoneList, reference, 50, FALSE,
                                    network_type = "water-water", NoAngle,
                                    DefaultMaxDistance, {})} :
            /\ r.ok
            /\ water_molecules = FrameWaters(sites, 1)
            /\ protein_atoms = FrameProtein(network_type)
            /\ active_site = r.active_site
            /\ selected = r.selected
            /\ connections = r.connections
            /\ graph = r.graph
            /\ ret = [NoRet EXCEPT
                        !.op = IF directed THEN "generate_directed_network"
                               ELSE "generate_oxygen_network",
                        !.dist_cutoff = DefaultMaxDistance,
                        !.water_only = network_type = "water-water",
                        !.reference = reference, !.radius = 50,
                        !.calls_left = MaxCalls]

NextMetrics ==
    \/ GetDensity
    \/ GetConnectedComponents
    \/ GetCPL
    \/ GetClusteringCoefficient
    \/ GetEntropy

SpecMetrics == InitMetrics /\ [][NextMetrics]_vars

(***************************************************************************)
(* Properties                                                              *)
(***************************************************************************)
\* the atoms a finder call works on
ScopeWaters == IF ret.active_site_only THEN selected.water_active.list ELSE water_molecules
ScopeProtein == IF ret.active_site_only THEN selected.protein_active.list ELSE protein_atoms

Returns(op) == ret.op = op /\ ret.ok
WatWat(c) == {i \in 1..Len(c) : c[i][4] = "WAT-WAT"}
WatProt(c) == {i \in 1..Len(c) : c[i][4] = "WAT-PROT"}
WaterWithO(waters, index) == {w \in 1..Len(waters) : waters[w].O.index = index}
AtomWithIndex(atoms, index) == {a \in 1..Len(atoms) : atoms[a].index = index}
Hydrogen(mol, name) == IF name = "H1" THEN mol.H1 ELSE mol.H2
CutoffSq == ret.dist_cutoff * ret.dist_cutoff

\* C1: every WAT-WAT connection returned by find_connections has the lower
\* oxygen index first, and no unordered pair of oxygen indices is returned twice.
C1_LowerIndexFirstOnce ==
    Returns("find_connections") =>
        LET c == ret.value
        IN  /\ \A i \in WatWat(c) : c[i][1] < c[i][2]
            /\ \A i, j \in WatWat(c) :
                 i # j => {c[i][1], c[i][2]} # {c[j][1], c[j][2]}

\* a call that returned two WAT-WAT connections, one of them found from a water
\* that comes later in the list than its partner
C1_Witness ==
    /\ Returns("find_connections")
    /\ Cardinality(WatWat(ret.value)) >= 2
    /\ \E i \in WatWat(ret.value) :
         \E a \in WaterWithO(ScopeWaters, ret.value[i][1]),
            b \in WaterWithO(ScopeWaters, ret.value[i][2]) : a > b

\* the two atoms a returned connection joins are atoms in scope no farther
\* apart than the cutoff
UndirectedInRange(c) ==
    IF c[4] = "WAT-WAT"
    THEN \E a \in WaterWithO(ScopeWaters, c[1]), b \in WaterWithO(ScopeWaters, c[2]) :
           Dist2(ScopeWaters[a].O.coordinates, ScopeWaters[b].O.coordinates) <= CutoffSq
    ELSE \E a \in AtomWithIndex(ScopeProtein, c[1]), b \in WaterWithO(ScopeWaters, c[2]) :
           Dist2(ScopeProtein[a].coordinates, ScopeWaters[b].O.coordinates) <= CutoffSq

DirectedInRange(c) ==
    IF c[4] = "WAT-WAT"
    THEN \E d \in WaterWithO(ScopeWaters, c[1]), a \in WaterWithO(ScopeWaters, c[2]) :
           Dist2(Hydrogen(ScopeWaters[d], c[3]).coordinates,
                 ScopeWaters[a].O.coordinates) <= CutoffSq
    ELSE IF c[3] \in {"H1", "H2"}
    THEN \E d \in WaterWithO(ScopeWaters, c[1]), a \in AtomWithIndex(ScopeProtein, c[2]) :
           Dist2(Hydrogen(ScopeWaters[d], c[3]).coordinates,
                 ScopeProtein[a].coordinates) <= CutoffSq
    ELSE \E d \in AtomWithIndex(ScopeProtein, c[1]), a \in WaterWithO(ScopeWaters, c[2]) :
           Dist2(ScopeProtein[d].coordinates, ScopeWaters[a].O.coordinates) <= CutoffSq

\* C3: no connection returned by find_connections (O-O, O-protein atom) or by
\* find_directed_connections (hydrogen-acceptor) joins two atoms farther apart
\* than dist_cutoff; a k-d tree slot without a neighbour yields no connection.
C3_NoFalsePositive ==
    /\ Returns("find_connections") =>
         \A i \in 1..Len(ret.value) : UndirectedInRange(ret.value[i])
    /\ Returns("find_directed_connections") =>
         \A i \in 1..Len(ret.value) : DirectedInRange(ret.value[i])

\* find_connections with the arguments of the directed call
UndirectedSameCall ==
    find_connections(water_molecules, protein_atoms, active_site, ret.dist_cutoff,
                     selected.water_active, selected.protein_active,
                     ret.active_site_only, ret.water_only)

\* atoms on which both finders return a connection while each leaves a slot
\* without neighbour: the directed call has returned with a hydrogen in scope
\* that has the oxygen of another water beyond the cutoff, and two oxygens in
\* scope are beyond the cutoff of each other
C3_Witness ==
    /\ Returns("find_directed_connections")
    /\ ret.value # <<>>
    /\ \E d, a \in 1..Len(ScopeWaters) :
         /\ d # a
         /\ Dist2(ScopeWaters[d].H1.coordinates, ScopeWaters[a].O.coordinates) > CutoffSq
    /\ UndirectedSameCall.ok
    /\ UndirectedSameCall.connections # <<>>
    /\ \A i \in 1..Len(UndirectedSameCall.connections) :
         UndirectedInRange(UndirectedSameCall.connections[i])
    /\ \E a, b \in 1..Len(ScopeWaters) :
         Dist2(ScopeWaters[a].O.coordinates, ScopeWaters[b].O.coordinates) > CutoffSq

\* C2 (as claimed): find_connections returns a WAT-WAT connection for every two
\* distinct water oxygens in scope at distance <= dist_cutoff and, unless
\* water_only, a WAT-PROT connection for every water oxygen and protein atom in
\* scope at distance <= dist_cutoff, whatever the number of atoms.
C2_NoFalseNegative ==
    ret.op = "find_connections" =>
        /\ \A a, b \in 1..Len(ScopeWaters) :
             (a # b /\ Dist2(ScopeWaters[a].O.coordinates,
                             ScopeWaters[b].O.coordinates) <= CutoffSq)
             => /\ ret.ok
                /\ \E i \in WatWat(ret.value) :
                     {ret.value[i][1], ret.value[i][2]}
                         = {ScopeWaters[a].O.index, ScopeWaters[b].O.index}
        /\ ~ret.water_only =>
             \A w \in 1..Len(ScopeWaters), a \in 1..Len(ScopeProtein) :
                Dist2(ScopeWaters[w].O.coordinates, ScopeProtein[a].coordinates) <= CutoffSq
                => /\ ret.ok
                   /\ \E i \in WatProt(ret.value) :
                        /\ ret.value[i][1] = ScopeProtein[a].index
                        /\ ret.value[i][2] = ScopeWaters[w].O.index

\* C4 (as claimed): with angle_criteria=None, every water hydrogen in scope and
\* every oxygen of a different water within dist_cutoff of it give a returned
\* connection [donor oxygen index, acceptor oxygen index], whichever is larger.
C4_DirectedNoFalseNegative ==
    (ret.op = "find_directed_connections" /\ ret.angle_criteria = NoAngle) =>
        \A d, a \in 1..Len(ScopeWaters) : \A name \in {"H1", "H2"} :
            (d # a /\ Dist2(Hydrogen(ScopeWaters[d], name).coordinates,
                            ScopeWaters[a].O.coordinates) <= CutoffSq)
            => /\ ret.ok
               /\ \E i \in WatWat(ret.value) :
                    /\ ret.value[i][1] = ScopeWaters[d].O.index
                    /\ ret.value[i][2] = ScopeWaters[a].O.index

\* C5: find_directed_connections returns no connection from a hydrogen to the
\* oxygen of its own water (connection[0] = connection[1]), for any cutoff and
\* with or without angle_criteria.
C5_NoSelfConnection ==
    Returns("find_directed_connections") =>
        \A i \in 1..Len(ret.value) : ret.value[i][1] # ret.value[i][2]

\* a directed call with an angle criterion that returned a connection, on the
\* waters of the active site while self.water_molecules holds a water made by
\* add_atom; every hydrogen has its own oxygen within the cutoff
C5_Witness ==
    /\ Returns("find_directed_connections")
    /\ ret.angle_criteria # NoAngle
    /\ ret.value # <<>>
    /\ FirstBareWater(water_molecules) # 0
    /\ \A w \in 1..Len(ScopeWaters) :
         Dist2(ScopeWaters[w].H1.coordinates, ScopeWaters[w].O.coordinates) < CutoffSq

\* the donor-H...acceptor angle as the claim defines it: between the vector
\* hydrogen -> acceptor and the vector donor heavy atom -> hydrogen
ClaimedAngleAtLeast(hydrogen, acceptor, heavy, theta) ==
    AngleExact(Sub(acceptor, hydrogen), Sub(hydrogen, heavy), theta)

\* C6 (as claimed): with angle_criteria set, the call completes and every
\* returned connection has a donor-H...acceptor angle, between hydrogen ->
\* acceptor and donor heavy atom -> hydrogen, that is >= angle_criteria.
C6_AngleAtLeastCriteria ==
    (ret.op = "find_directed_connections" /\ ret.angle_criteria # NoAngle) =>
        /\ ret.ok
        /\ \A i \in WatWat(ret.value) :
             \E d \in WaterWithO(ScopeWaters, ret.value[i][1]),
                a \in WaterWithO(ScopeWaters, ret.value[i][2]) :
                ClaimedAngleAtLeast(Hydrogen(ScopeWaters[d], ret.value[i][3]).coordinates,
                                    ScopeWaters[a].O.coordinates,
                                    ScopeWaters[d].O.coordinates, ret.angle_criteria)
        /\ \A i \in WatProt(ret.value) :
             ret.value[i][3] \in {"H1", "H2"} =>
                \E d \in WaterWithO(ScopeWaters, ret.value[i][1]),
                   a \in AtomWithIndex(ScopeProtein, ret.value[i][2]) :
                   ClaimedAngleAtLeast(Hydrogen(ScopeWaters[d], ret.value[i][3]).coordinates,
                                       ScopeProtein[a].coordinates,
                                       ScopeWaters[d].O.coordinates, ret.angle_criteria)

\* the same finder call without an angle criterion
DirectedWithoutAngle ==
    find_directed_connections(water_molecules, protein_atoms, active_site, ret.dist_cutoff,
                              selected.water_active, selected.protein_active,
                              ret.active_site_only, ret.water_only, NoAngle, {})

\* the same generate_directed_network call, on the freshly filled network,
\* without an angle criterion
GenerateWithoutAngle ==
    generate_network(TRUE, water_molecules, protein_atoms, protein_subset, NoneList,
                     NoneList, NoGraph, ret.box, NoneList, ret.reference, ret.radius,
                     ret.active_site_only, ret.water_only, NoAngle, ret.dist_cutoff, {})

\* C7: for the same atoms, scope and cutoff, the directed connections found
\* with an angle criterion are among those found with angle_criteria=None, in
\* find_directed_connections and in the edges of generate_directed_network.
C7_AngleSubset ==
    /\ (Returns("find_directed_connections") /\ ret.angle_criteria # NoAngle) =>
         /\ DirectedWithoutAngle.ok
         /\ Range(ret.value) \subseteq Range(DirectedWithoutAngle.connections)
    /\ (Returns("generate_directed_network") /\ ret.angle_criteria # NoAngle) =>
         /\ GenerateWithoutAngle.ok
         /\ graph.edges \subseteq GenerateWithoutAngle.graph.edges

\* a call with an angle criterion that kept some connections found without it
\* and dropped others, on the waters of the active site while
\* self.water_molecules holds a water made by add_atom
C7_Witness ==
    /\ Returns("find_directed_connections")
    /\ ret.angle_criteria # NoAngle
    /\ ret.value # <<>>
    /\ FirstBareWater(water_molecules) # 0
    /\ Range(ret.value) # Range(DirectedWithoutAngle.connections)

\* residue ids of the members of the active site
ActiveResids == {active_site.list[k].resid : k \in 1..Len(active_site.list)}

EndpointResids(c) ==
    IF c[4] = "WAT-WAT"
    THEN {ScopeWaters[w].resid :
            w \in WaterWithO(ScopeWaters, c[1]) \cup WaterWithO(ScopeWaters, c[2])}
    ELSE {ScopeProtein[a].resid : a \in AtomWithIndex(ScopeProtein, c[1])}
         \cup {ScopeWaters[w].resid : w \in WaterWithO(ScopeWaters, c[2])}

\* C8 (as claimed): a connection returned by find_connections is tagged 'None'
\* iff no active site is defined; otherwise 'active_site' iff the residue of at
\* least one of its two endpoints is in the active set, else 'not_active_site'.
C8_UndirectedTag ==
    Returns("find_connections") =>
        \A i \in 1..Len(ret.value) :
            ret.value[i][5] =
                IF active_site.none THEN "None"
                ELSE IF EndpointResids(ret.value[i]) \cap ActiveResids # {}
                     THEN "active_site" ELSE "not_active_site"

\* the atom or water molecule with this (oxygen) index is a member of the
\* active site
InActiveSite(index) ==
    \E k \in 1..Len(active_site.list) :
        IF IsWater(active_site.list[k]) THEN active_site.list[k].O.index = index
        ELSE active_site.list[k].index = index

\* C9 (as claimed): with an active site defined and active_site_only False, a
\* directed connection is tagged 'active_site' iff its donor or its acceptor
\* belongs to the active set, and 'not_active_site' otherwise.
C9_DirectedTag ==
    (Returns("find_directed_connections") /\ ~active_site.none /\ ~ret.active_site_only) =>
        \A i \in 1..Len(ret.value) :
            ret.value[i][5] =
                IF InActiveSite(ret.value[i][1]) \/ InActiveSite(ret.value[i][2])
                THEN "active_site" ELSE "not_active_site"

\* C10 (as claimed): select_active_site puts a protein atom in the active set
\* iff it is an atom of the reference or its box-aware minimum distance to a
\* reference atom is <= active_site_radius, and a water iff one of its three
\* atoms is within active_site_radius of a reference atom; the second and third
\* collections are the qualifying non-reference protein atoms and waters.
C10_ActiveSiteMembers ==
    ret.op = "select_active_site" =>
        LET reference == ret.reference.list
            refatom(atm) == \E k \in 1..Len(reference) : reference[k].index = atm.index
            near(p) == \E k \in 1..Len(reference) :
                          BoxDist2(p, reference[k].position, ret.box) <= ret.radius * ret.radius
            wnear(mol) == \E k \in 1..Len(reference) :
                            \E p \in {mol.O.coordinates, mol.H1.coordinates, mol.H2.coordinates} :
                               Dist2(p, reference[k].position) <= ret.radius * ret.radius
        IN  /\ \A a \in 1..Len(protein_atoms) :
                 (protein_atoms[a] \in Range(ret.value[1]))
                     <=> (refatom(protein_atoms[a]) \/ near(protein_atoms[a].coordinates))
            /\ \A w \in 1..Len(water_molecules) :
                 (water_molecules[w] \in Range(ret.value[1])) <=> wnear(water_molecules[w])
            /\ Range(ret.value[2]) = {protein_atoms[a] : a \in
                                        {x \in 1..Len(protein_atoms) :
                                           /\ ~refatom(protein_atoms[x])
                                           /\ near(protein_atoms[x].coordinates)}}
            /\ Range(ret.value[3]) = {water_molecules[w] : w \in
                                        {x \in 1..Len(water_molecules) :
                                           wnear(water_molecules[x])}}
\* the unordered pairs of distinct nodes of G joined by an edge
LinkedPairs(G) ==
    {pr \in SUBSET NodeIds(G) :
        /\ Cardinality(pr) = 2
        /\ \E e \in G.edges : {e.u, e.v} = pr}

\* the waters are the three colinear ones at spacing 2.8 (sites 1, 2, 3)
ThreeColinearWaters ==
    /\ Len(water_molecules) = 3
    /\ \A s \in 1..3 : water_molecules[s].O.coordinates = SiteOPos(s)

\* C11: on a graph built by generate_oxygen_network with N >= 2 nodes,
\* get_density(selection='all') returns edges / (N*(N-1)/2): 1 when every pair
\* of nodes is joined, 0 when there is no edge, and 2/3 for three colinear
\* waters at spacing 2.8 with cutoff 3.3 (3 nodes, 2 edges).
C11_Density ==
    (ret.op = "get_density" /\ ~graph.directed /\ ret.selection = "all"
        /\ Cardinality(graph.nodes) >= 2) =>
        LET N == Cardinality(graph.nodes)
            pairs == Cardinality(LinkedPairs(graph))
        IN  /\ ret.ok
            /\ ret.value[1] * N * (N - 1) = 2 * pairs * ret.value[2]
            /\ 2 * pairs = N * (N - 1) => ret.value = <<1, 1>>
            /\ pairs = 0 => ret.value = <<0, 1>>
            /\ (ThreeColinearWaters /\ ret.water_only /\ ~ret.active_site_only
                   /\ ret.dist_cutoff = 33)
               => (N = 3 /\ pairs = 2 /\ ret.value = <<2, 3>>)

\* the density of the three colinear waters was read and is 2/3
C11_Witness ==
    /\ ret.op = "get_density" /\ ~graph.directed /\ ret.selection = "all"
    /\ ThreeColinearWaters /\ ret.water_only /\ ~ret.active_site_only
    /\ ret.ok /\ ret.value = <<2, 3>>

\* C12: get_density on a selected subgraph with fewer than 2 nodes is guarded:
\* the call returns a value that marks the failure, it does not raise from an
\* unguarded division by zero.
C12_DensityGuarded ==
    (ret.op = "get_density"
        /\ Cardinality(Selected(graph, ret.selection).nodes) < 2) => ret.ok

\* the edges of the graph that carry the tag, and their endpoints
TaggedEdges(tag) == {e \in graph.edges : e.active_site = tag}
TaggedEnds(tag) == UNION {{e.u, e.v} : e \in TaggedEdges(tag)}

\* C13: each of get_density, get_connected_components, get_CPL,
\* get_clustering_coefficient and get_entropy accepts the selections
\* 'active_site' and 'not_active_site' and computes its result on the subgraph
\* of the edges whose tag equals the selection, N being the number of
\* endpoints of those edges.
C13_SelectionSubgraph ==
    (ret.op \in {"get_density", "get_connected_components", "get_CPL",
                 "get_clustering_coefficient", "get_entropy"}
        /\ ret.selection # "all" /\ TaggedEdges(ret.selection) # {}) =>
        LET E == Cardinality(TaggedEdges(ret.selection))
            ends == TaggedEnds(ret.selection)
            N == Cardinality(ends)
            S == [graph EXCEPT !.nodes = {nd \in graph.nodes : nd.id \in ends},
                               !.order = Ordered(@, ends),
                               !.edges = TaggedEdges(ret.selection)]
        IN  /\ ret.ok
            /\ ret.op = "get_density" => ret.value = Ratio(2 * E, N * (N - 1))
            /\ ret.op = "get_connected_components" =>
                   SumFn([s \in DOMAIN ret.value |-> s * ret.value[s]], DOMAIN ret.value) = N
            /\ (ret.op = "get_CPL" /\ IsConnected(S, FALSE)) =>
                   ret.value = average_shortest_path_length(S, FALSE).value
            /\ ret.op = "get_clustering_coefficient" => DOMAIN ret.value = ends
            /\ ret.op = "get_entropy" =>
                   ret.value = SelectSeq([k \in 1..N |->
                                   Ratio(Cardinality({v \in ends : Degree(S, v) = k - 1}), N)],
                                   LAMBDA p : p[1] > 0)

\* the node ids and the linked pairs a selection leaves
SelectedIds(selection) == IF selection = "all" THEN NodeIds(graph) ELSE TaggedEnds(selection)
SelectedLinks(selection) ==
    {<<e.u, e.v>> : e \in {x \in graph.edges : selection = "all" \/ x.active_site = selection}}

\* the nodes joined to those of seen by links taken in either direction
RECURSIVE Joined(_, _)
Joined(seen, links) ==
    LET more == seen \cup {l[2] : l \in {x \in links : x[1] \in seen}}
                     \cup {l[1] : l \in {x \in links : x[2] \in seen}}
    IN  IF more = seen THEN seen ELSE Joined(more, links)

\* C14: get_connected_components returns one size per connected component
\* (weakly connected for a directed graph) of the selected subgraph, so the
\* sizes sum to the number of its nodes; a tree of 5 nodes and 4 edges gives
\* the single size 5.
C14_ComponentSizes ==
    ret.op = "get_connected_components" =>
        LET ids == SelectedIds(ret.selection)
            links == SelectedLinks(ret.selection)
            part == {Joined({v}, links) : v \in ids}
            sizes == DOMAIN ret.value
        IN  /\ ret.ok
            /\ sizes = {Cardinality(c) : c \in part}
            /\ \A s \in sizes : ret.value[s] = Cardinality({c \in part : Cardinality(c) = s})
            /\ SumFn([s \in sizes |-> s * ret.value[s]], sizes) = Cardinality(ids)
            /\ (Cardinality(ids) = 5 /\ Cardinality(LinkedPairs(graph)) = 4
                   /\ ret.selection = "all" /\ Cardinality(part) = 1)
               => ret.value = (5 :> 1)

\* the sizes of a tree of 5 nodes and 4 edges were read
C14_Witness ==
    /\ ret.op = "get_connected_components" /\ ret.ok /\ ret.selection = "all"
    /\ Cardinality(graph.nodes) = 5 /\ Cardinality(LinkedPairs(graph)) = 4
    /\ ret.value = (5 :> 1)

\* the nodes at most r links, taken in either direction, from those of seen
RECURSIVE Near(_, _, _)
Near(seen, links, r) ==
    IF r = 0 THEN seen
    ELSE Near(seen \cup {l[2] : l \in {x \in links : x[1] \in seen}}
                   \cup {l[1] : l \in {x \in links : x[2] \in seen}}, links, r - 1)

\* the number of links on a shortest path between two joined nodes
Distance(u, v, links) ==
    CHOOSE r \in 0..Cardinality(links) :
        /\ v \in Near({u}, links, r)
        /\ r > 0 => v \notin Near({u}, links, r - 1)

\* the average shortest path length of the component c, links taken in
\* either direction
ComponentAverage(c, links) ==
    IF Cardinality(c) = 1 THEN <<0, 1>>
    ELSE
    Ratio(SumFn([pr \in c \X c |-> Distance(pr[1], pr[2], links)], c \X c),
          Cardinality(c) * (Cardinality(c) - 1))

\* the components of the selected subgraph are single nodes, at least one,
\* and one component of two nodes or more
SinglesAndOne ==
    LET part == {Joined({v}, SelectedLinks(ret.selection)) : v \in SelectedIds(ret.selection)}
    IN  /\ Cardinality({c \in part : Cardinality(c) > 1}) = 1
        /\ \E c \in part : Cardinality(c) = 1

\* C15: on a disconnected graph made of isolated single nodes and one
\* component of m >= 2 nodes, get_CPL(calculate_path='all',
\* exclude_single_points=True) is the average shortest path length of that
\* component alone (taken undirected when the graph is directed), whatever the
\* number of single nodes.
C15_ExcludeSinglePoints ==
    (ret.op = "get_CPL" /\ ret.calculate_path = "all" /\ ret.exclude_single_points
        /\ SinglesAndOne) =>
        LET links == SelectedLinks(ret.selection)
            part == {Joined({v}, links) : v \in SelectedIds(ret.selection)}
            big == CHOOSE c \in part : Cardinality(c) > 1
        IN  ret.ok /\ ret.value = ComponentAverage(big, links)

\* the path length of a single node and a component of three nodes in a row
\* was read with the single points excluded
C15_Witness ==
    /\ ret.op = "get_CPL" /\ ret.calculate_path = "all" /\ ret.exclude_single_points
    /\ SinglesAndOne /\ Cardinality(graph.nodes) = 4 /\ Cardinality(LinkedPairs(graph)) = 2
    /\ ret.ok /\ ret.value = <<4, 3>>

\* C16: on a disconnected graph get_CPL(calculate_path='longest') returns the
\* average shortest path length of a largest connected component, the graph
\* taken undirected when it is directed.
C16_LongestComponent ==
    LET links == SelectedLinks(ret.selection)
        part == {Joined({v}, links) : v \in SelectedIds(ret.selection)}
        largest == {c \in part : \A d \in part : Cardinality(d) <= Cardinality(c)}
    IN  (ret.op = "get_CPL" /\ ret.calculate_path = "longest" /\ Cardinality(part) > 1) =>
            /\ ret.ok
            /\ \E c \in largest : ret.value = ComponentAverage(c, links)

\* the number of link ends at the node
LinkEnds(v, links) ==
    Cardinality({l \in links : l[1] = v}) + Cardinality({l \in links : l[2] = v})

\* C17: on a non-empty selected subgraph get_entropy returns
\* -sum(p * log2(p)) over the nonzero probabilities p of the degree histogram
\* 0..max_degree, read here as the sequence of those p; when all nodes have
\* the same degree the only p is 1 and the entropy is 0.
C17_Entropy ==
    (ret.op = "get_entropy" /\ SelectedIds(ret.selection) # {}) =>
        LET ids == SelectedIds(ret.selection)
            links == SelectedLinks(ret.selection)
            degrees == {LinkEnds(v, links) : v \in ids}
            share(k) == Ratio(Cardinality({v \in ids : LinkEnds(v, links) = k}),
                              Cardinality(ids))
        IN  /\ ret.ok
            /\ Len(ret.value) = Cardinality(degrees)
            /\ \A i \in 1..Len(ret.value) :
                   \E k \in degrees :
                       /\ ret.value[i] = share(k)
                       /\ Cardinality({j \in degrees : j < k}) = i - 1
            /\ Cardinality(degrees) = 1 => ret.value = << <<1, 1>> >>

\* the entropy of a graph of linked nodes that all have the same degree was
\* read
C17_Witness ==
    /\ ret.op = "get_entropy" /\ ret.ok /\ ret.value = << <<1, 1>> >>
    /\ Cardinality(SelectedIds(ret.selection)) > 2
    /\ \A v \in SelectedIds(ret.selection) : LinkEnds(v, SelectedLinks(ret.selection)) > 0

\* the indices the members of the active site give the graph: the oxygen of
\* a water, the atom itself for a protein atom (none when water_only)
ActiveSiteIds(water_only) ==
    {active_site.list[k].O.index :
        k \in {i \in 1..Len(active_site.list) : IsWater(active_site.list[i])}}
    \cup IF water_only THEN {}
         ELSE {active_site.list[k].index :
                 k \in {i \in 1..Len(active_site.list) : ~IsWater(active_site.list[i])}}

\* C18: with active_site_only the graph generate_oxygen_network or
\* generate_directed_network returns has as nodes all members of the active
\* site (the oxygen of every active-site water and, unless water_only, every
\* active-site protein atom) and no other node, and every edge carries the
\* tag 'active_site'.
C18_ActiveSiteOnlyGraph ==
    (ret.op \in GenerateOps /\ ret.ok /\ ret.active_site_only) =>
        /\ NodeIds(graph) = ActiveSiteIds(ret.water_only)
        /\ \A e \in graph.edges : e.active_site = "active_site"

\* C19: a failure while processing one frame is contained to that frame:
\* initialize_network reports it with the frame's identity and still returns
\* the metrics records of all the other frames; the batch is not aborted.
C19_FrameFailureContained ==
    BatchOver =>
        /\ ret.ok
        /\ Len(batch.outcomes) = batch.frames
        /\ ret.value = Values(SelectSeq(batch.outcomes, LAMBDA o : o.ok))

\* the metrics computed on the graph itself
GraphMetricKeys ==
    {"density", "connected_components", "characteristic_path_length", "graph_entropy",
     "clustering_coefficient"}

\* C20: for a frame process_frame returns a metrics record that holds exactly
\* the metrics enabled in analysis_conditions, each with its computed value;
\* any subset may be disabled, and analysis_conditions='all' gives density,
\* connected_components, interaction_counts, per_residue_interaction,
\* characteristic_path_length, entropy and clustering_coefficient.  Frames on
\* which an enabled graph metric itself fails are left aside.
C20_MetricsRecord ==
    LET enabled == EnabledKeys(batch.analysis_conditions)
        sel == batch.analysis_selection
    IN  (ret.op = "process_frame" /\ ~graph.none
            /\ \A k \in enabled \cap GraphMetricKeys : MetricCall(k, graph, sel, ret.weak_test).ok) =>
            /\ ret.ok
            /\ DOMAIN ret.value = {MetricName(k) : k \in enabled}
            /\ \A k \in enabled \cap GraphMetricKeys :
                   ret.value[MetricName(k)] = MetricCall(k, graph, sel, ret.weak_test).value
            /\ batch.analysis_conditions = {"all"} =>
                   DOMAIN ret.value =
                       {"density", "connected_components", "interaction_counts",
                        "per_residue_interaction", "characteristic_path_length",
                        "entropy", "clustering_coefficient"}

\* C21: in every graph generate_oxygen_network or generate_directed_network
\* returns, every node, the endpoints of the edges included, carries an atom
\* category (water or protein) and a position; no node exists as a bare edge
\* endpoint without metadata.
C21_NodesCarryMetadata ==
    (ret.op \in GenerateOps /\ ret.ok) =>
        /\ \A nd \in graph.nodes :
               nd.attrs /\ nd.atom_category \in {"WAT", "PROTEIN"} /\ Len(nd.pos) = 3
        /\ \A e \in graph.edges : {e.u, e.v} \subseteq NodeIds(graph)

\* C22: with several parallel workers and classify_water, the writes to the
\* classification log are serialized: the header is written once and before
\* any row, and no two workers have the log open for writing at a time.
C22_LogSerialized ==
    (batch.classify_water /\ batch.num_workers > 1) =>
        /\ batch.log # <<>> =>
               /\ batch.log[1] = LogHeader
               /\ \A i \in 2..Len(batch.log) : batch.log[i] # LogHeader
        /\ (\E f \in 1..batch.frames : batch.pc[f] \notin {"header"}) => batch.log # <<>>
        /\ Cardinality({f \in 1..batch.frames : batch.pc[f] = "open"}) <= 1

\* C23: a spatial index over zero points does not fail: find_connections and
\* find_directed_connections called with an empty water set, or with
\* water_only False and an empty protein set, complete without error and
\* return no connection that involves the empty set.
C23_EmptyIndex ==
    (ret.op \in {"find_connections", "find_directed_connections"}
        /\ (ScopeWaters = <<>> \/ (~ret.water_only /\ ScopeProtein = <<>>))) =>
        /\ ret.ok
        /\ ScopeWaters = <<>> => ret.value = <<>>
        /\ ScopeProtein = <<>> => WatProt(ret.value) = {}

\* the alignment column of a residue in the map, 'None' (no alignment) when
\* the map has no entry for it
AlignmentOf(map, resid) == IF resid \in 1..Len(map) THEN map[resid] ELSE "None"

\* C24: with an alignment map supplied, a protein atom whose residue id is
\* missing from or out of range of the map gets no alignment as the
\* alignment index of its node and the graph is built; the lookup never
\* raises and never gives the column of another residue.
C24_AlignmentDegrades ==
    (ret.op \in GenerateOps /\ ~ret.msa_indexing.none) =>
        /\ ret.error # "IndexError"
        /\ ret.ok =>
               \A nd \in {x \in graph.nodes : x.atom_category = "PROTEIN"} :
                   \A a \in AtomWithIndex(protein_atoms, nd.id) :
                       nd.MSA = AlignmentOf(ret.msa_indexing.list, protein_atoms[a].resid)

\* C25: the metric operations leave the built graph alone: across every call
\* of get_density, get_connected_components, get_CPL,
\* get_clustering_coefficient and get_entropy, with any selection and options
\* and after any calls before it, self.graph keeps its nodes, edges,
\* attributes and directedness, and self.connections and self.active_site
\* are unchanged.
C25_MetricsStateless ==
    [][ret'.op \in MetricOps =>
          /\ graph' = graph
          /\ connections' = connections
          /\ active_site' = active_site]_vars

\* get_CPL has answered from the components of a disconnected directed graph,
\* converted for the purpose, as the last of MaxCalls metric calls, and the
\* graph is still directed
C25_Witness ==
    /\ ret.op = "get_CPL" /\ ret.ok /\ ret.calls_left = 0
    /\ graph.directed /\ graph.edges # {}
    /\ Cardinality({Joined({v}, SelectedLinks("all")) : v \in NodeIds(graph)}) > 1
====
